---- MODULE Spec2Model ----
(***************************************************************************)
(* Model of the trade-engine execution core: RiskEngine.pre_order_guard,   *)
(* ExecutionRouter (dedup window, daily order counter, paper/live          *)
(* dispatch, reconciliation) and OrderJournal.                             *)
(*                                                                         *)
(* Time is in whole seconds since a Monday 00:00:00 UTC.  Prices are in    *)
(* thousandths of a currency unit, so that round(price, 2) is a real       *)
(* conversion.                                                             *)
(***************************************************************************)
EXTENDS Integers, Sequences, FiniteSets, TLC

(***************************************************************************)
(* Bounds of the model.                                                    *)
(***************************************************************************)
MaxCalls == 2
MaxTicks == 1
MaxDedupCalls == 3
MaxDedupTicks == 2
MaxReconCalls == 2
MaxReconciles == 2
MaxOrdersToday == 3
MaxGuardLimit == 2
MaxJournalCalls == 4
MaxFrameCalls == 4
MaxSaves == 2
MaxLoads == 2
MaxSessionOps == 3
MaxCycleOps == 2
MaxManualOps == 2
MaxBreachOps == 3
MaxExposureOps == 2
MaxKillOps == 3
MaxAbsorbOps == 4
MaxBusOps == 4
MaxLoopOps == 3
MaxCommandOps == 3
MaxBoundedOps == 3
MaxSettleOps == 3
MaxResumeOps == 6

(***************************************************************************)
(* Program and library constants.                                          *)
(***************************************************************************)
SecondsPerDay == 86400
DuplicateWindow == 20
IstOffset == 19800
MarketOpen == 33300
MarketClose == 55800
ReconcileLimit == 200

FINAL_STATES == {"COMPLETE", "FILLED", "CANCELLED", "REJECTED", "FAILED"}
OpenStatuses == {"SENT", "OPEN", "PARTIAL"}

(***************************************************************************)
(* Inputs the environment may supply.                                      *)
(***************************************************************************)
\* Order intents a caller may route.  The second to fifth differ from the first
\* in lot, symbol, exit flag and side respectively.
Intents ==
    {[symbol |-> "TCS.NS", side |-> "buy", quantity |-> 1, price |-> 100000, is_exit |-> FALSE],
     [symbol |-> "TCS.NS", side |-> "SELL", quantity |-> 50, price |-> 100126, is_exit |-> TRUE],
     [symbol |-> "INFY", side |-> "buy", quantity |-> 1, price |-> 100000, is_exit |-> FALSE],
     [symbol |-> "TCS.NS", side |-> "buy", quantity |-> 1, price |-> 100000, is_exit |-> TRUE],
     [symbol |-> "TCS.NS", side |-> "SELL", quantity |-> 1, price |-> 100000, is_exit |-> FALSE]}
CtorModes == {"paper", "LIVE", "sim"}
SetModeArgs == {"", "LIVE", "sim"}
TickSteps == {10, 11}
StartTime == SecondsPerDay - 10

VARIABLES
    mode,            \* ExecutionRouter.mode
    broker,          \* TRUE iff a broker handle is configured
    risk_engine,     \* TRUE iff a RiskEngine is configured
    config,          \* the RiskConfig of the risk engine
    now,             \* the UTC clock, datetime.utcnow()
    last_order_at,   \* ExecutionRouter._last_order_at
    orders_today,    \* ExecutionRouter._orders_today
    orders_day,      \* ExecutionRouter._orders_day
    journal,         \* rows of the orders table, journal[i].id = i
    place_calls,     \* the broker's log of place_order invocations
    status_calls,    \* the broker's log of get_order_status invocations (journal ids)
    result,          \* value returned by the last router operation
    calls,           \* history of route_order calls: inputs, environment, outcome
    recon,           \* history of reconcile_order_statuses runs
    ticks,           \* number of clock steps taken
    guard,           \* a direct call of RiskEngine.pre_order_guard: arguments and return value
    jcalls,          \* history of direct OrderJournal calls: arguments, rows before and after, return value
    inodes,          \* the files of the state directory: inodes[i] = [doc, written]
    state_file,      \* the inode linked at SessionStateStore.state_file, 0 when the path does not exist
    temp_files,      \* the inodes linked at session_*.json temp paths
    saver,           \* the process inside save_state: position, document, temp inode, return value
    reader,          \* the process inside load_state: position, open handle
    loads,           \* history of load_state returns: what was read and what was returned
    cash,            \* LiveTradingConsole.cash
    realized_pnl,    \* LiveTradingConsole.realized_pnl
    positions,       \* LiveTradingConsole.positions: symbol -> PositionState
    event_log,       \* LiveTradingConsole.event_log
    equity_history,  \* LiveTradingConsole.equity_history
    runtime_watchlist, \* LiveTradingConsole.runtime_watchlist
    signal_triggers, \* LiveTradingConsole.signal_triggers, newest first
    symbol_controls, \* LiveTradingConsole._symbol_controls: symbol -> [buy, sell]
    session,         \* history of session operations of the console: new, save, restore, run
    calc,            \* a direct call of a pure function of the engine: arguments and return value
    event_bus        \* an EventBus: _subscribers, and the history of its publish calls

routerVars == <<mode, broker, risk_engine, config, now, last_order_at, orders_today,
                orders_day, journal, place_calls, status_calls, result, calls, recon, ticks>>
journalVars == <<jcalls>>
storeVars == <<inodes, state_file, temp_files, saver, reader, loads>>
consoleVars == <<cash, realized_pnl, positions, event_log, equity_history, runtime_watchlist,
                 signal_triggers, symbol_controls, session>>
others == <<journalVars, storeVars, consoleVars, calc, event_bus>>

vars == <<mode, broker, risk_engine, config, now, last_order_at, orders_today,
          orders_day, journal, place_calls, status_calls, result, calls, recon, ticks, guard,
          others>>

(***************************************************************************)
(* Strings: str.upper(), str.lower() and symbol.split(".")[0] on the       *)
(* strings that occur in the model.                                        *)
(***************************************************************************)
Upper(s) ==
    CASE s = "buy" -> "BUY"
      [] s = "sell" -> "SELL"
      [] s = "paper" -> "PAPER"
      [] s = "live" -> "LIVE"
      [] s = "sim" -> "SIM"
      [] s = "complete" -> "COMPLETE"
      [] s = "pending" -> "PENDING"
      [] s = "open" -> "OPEN"
      [] s = "rejected" -> "REJECTED"
      [] s = "cancelled" -> "CANCELLED"
      [] s = "sent" -> "SENT"
      [] s = "tcs.ns" -> "TCS.NS"
      [] s = "infy" -> "INFY"
      [] OTHER -> s

Lower(s) ==
    CASE s = "LIVE" -> "live"
      [] s = "PAPER" -> "paper"
      [] s = "SIM" -> "sim"
      [] s = "KO" -> "ko"
      [] s = "ON" -> "on"
      [] s = "Maybe" -> "maybe"
      [] OTHER -> s

NormalizeSymbol(symbol) ==
    CASE symbol = "TCS.NS" -> "TCS"
      [] OTHER -> symbol

\* round(price, 2) on a price in thousandths: nearest hundredth, exact ties to even.
Round2(price) ==
    LET q == price \div 10
        r == price % 10
    IN  IF r < 5 THEN q * 10
        ELSE IF r > 5 THEN (q + 1) * 10
        ELSE IF q % 2 = 0 THEN q * 10 ELSE (q + 1) * 10

Max(a, b) == IF a >= b THEN a ELSE b

\* dict.get(key, default) on a record.
Get(d, key, default) == IF key \in DOMAIN d THEN d[key] ELSE default

(***************************************************************************)
(* Broker responses: arbitrary nested dict / list shapes.                  *)
(***************************************************************************)
None == [t |-> "none"]
Str(v) == [t |-> "str", v |-> v]
Dict(items) == [t |-> "dict", items |-> items]
List(items) == [t |-> "list", items |-> items]

Truthy(node) ==
    CASE node.t = "none" -> FALSE
      [] node.t = "str" -> node.v # ""
      [] OTHER -> node.items # <<>>

\* response.get(key): the value stored under key, None when absent.
DictGet(node, key) ==
    IF \E i \in 1..Len(node.items) : node.items[i][1] = key
    THEN node.items[CHOOSE i \in 1..Len(node.items) : node.items[i][1] = key][2]
    ELSE None

\* First truthy value among the keys, in order; None when there is none.
FirstKey(node, keys) ==
    IF \E k \in 1..Len(keys) : Truthy(DictGet(node, keys[k]))
    THEN DictGet(node, keys[CHOOSE k \in 1..Len(keys) :
                               /\ Truthy(DictGet(node, keys[k]))
                               /\ \A j \in 1..(k - 1) : ~Truthy(DictGet(node, keys[j]))])
    ELSE None

RECURSIVE ExtractByKeys(_, _)
ExtractByKeys(response, keys) ==
    LET children ==
            IF response.t = "dict"
            THEN [i \in 1..Len(response.items) |-> response.items[i][2]]
            ELSE IF response.t = "list" THEN response.items ELSE <<>>
        nested == [i \in 1..Len(children) |-> ExtractByKeys(children[i], keys)]
        firstNested ==
            IF \E i \in 1..Len(nested) : nested[i] # ""
            THEN nested[CHOOSE i \in 1..Len(nested) :
                            /\ nested[i] # ""
                            /\ \A j \in 1..(i - 1) : nested[j] = ""]
            ELSE ""
    IN  IF response.t = "dict" /\ Truthy(FirstKey(response, keys))
        THEN FirstKey(response, keys).v
        ELSE firstNested

ExtractBrokerOrderId(response) ==
    ExtractByKeys(response, <<"groww_order_id", "order_id", "id">>)

\* The value found is upper-cased at the place it is found.
ExtractBrokerStatus(response) ==
    Upper(ExtractByKeys(response, <<"order_status", "status", "state">>))

(***************************************************************************)
(* RiskEngine                                                              *)
(***************************************************************************)
IsMarketOpen(now_utc) ==
    LET ist == now_utc + IstOffset
        weekday == (ist \div SecondsPerDay) % 7
        local_time == ist % SecondsPerDay
    IN  IF weekday >= 5 THEN FALSE
        ELSE MarketOpen <= local_time /\ local_time <= MarketClose

\* Variant: the limit admits one order too many.
PreOrderGuardOffByOne(cfg, m, n, is_exit, now_utc) ==
    IF cfg.kill_switch_enabled /\ ~is_exit THEN <<FALSE, "kill_switch_enabled">>
    ELSE IF m # "live" THEN <<TRUE, "ok">>
    ELSE IF cfg.market_hours_only /\ ~IsMarketOpen(now_utc) THEN <<FALSE, "outside_market_hours">>
    ELSE IF ~is_exit /\ n > Max(1, cfg.max_orders_per_day)
         THEN <<FALSE, "max_orders_per_day_reached">>
    ELSE <<TRUE, "ok">>

\* Variant: the kill switch blocks exits as well.
PreOrderGuardKillsExits(cfg, m, n, is_exit, now_utc) ==
    IF cfg.kill_switch_enabled THEN <<FALSE, "kill_switch_enabled">>
    ELSE IF m # "live" THEN <<TRUE, "ok">>
    ELSE IF cfg.market_hours_only /\ ~IsMarketOpen(now_utc) THEN <<FALSE, "outside_market_hours">>
    ELSE IF ~is_exit /\ n >= Max(1, cfg.max_orders_per_day)
         THEN <<FALSE, "max_orders_per_day_reached">>
    ELSE <<TRUE, "ok">>

\* Variant: the order limit is checked before the market hours.
PreOrderGuardLimitFirst(cfg, m, n, is_exit, now_utc) ==
    IF cfg.kill_switch_enabled /\ ~is_exit THEN <<FALSE, "kill_switch_enabled">>
    ELSE IF m # "live" THEN <<TRUE, "ok">>
    ELSE IF ~is_exit /\ n >= Max(1, cfg.max_orders_per_day)
         THEN <<FALSE, "max_orders_per_day_reached">>
    ELSE IF cfg.market_hours_only /\ ~IsMarketOpen(now_utc) THEN <<FALSE, "outside_market_hours">>
    ELSE <<TRUE, "ok">>

PreOrderGuard(cfg, m, n, is_exit, now_utc) ==
    IF cfg.kill_switch_enabled /\ ~is_exit THEN <<FALSE, "kill_switch_enabled">>
    ELSE IF m # "live" THEN <<TRUE, "ok">>
    ELSE IF cfg.market_hours_only /\ ~IsMarketOpen(now_utc) THEN <<FALSE, "outside_market_hours">>
    ELSE IF ~is_exit /\ n >= Max(1, cfg.max_orders_per_day)
         THEN <<FALSE, "max_orders_per_day_reached">>
    ELSE <<TRUE, "ok">>

(***************************************************************************)
(* OrderJournal                                                            *)
(***************************************************************************)
Payload(broker_payload) ==
    IF broker_payload.t = "dict" /\ broker_payload.items # <<>>
    THEN broker_payload ELSE Dict(<<>>)

RecordOrder(j, symbol, side, quantity, price, m, status, reason, broker_order_id, broker_payload, is_exit, at) ==
    Append(j, [id |-> Len(j) + 1,
               created_at |-> at,
               updated_at |-> at,
               symbol |-> Upper(symbol),
               side |-> Upper(side),
               quantity |-> quantity,
               price |-> price,
               mode |-> Lower(m),
               status |-> Upper(status),
               reason |-> reason,
               broker_order_id |-> broker_order_id,
               broker_payload |-> Payload(broker_payload),
               is_exit |-> is_exit])

\* update_order: TRUE iff a row with that id exists.
UpdatePersisted(j, journal_id) == journal_id \in 1..Len(j)

\* Variant: the UPDATE statement has no WHERE clause.
UpdateOrderEveryRow(j, journal_id, status, reason, broker_payload, at) ==
    [i \in 1..Len(j) |->
        [j[i] EXCEPT !.updated_at = at,
                     !.status = Upper(status),
                     !.reason = reason,
                     !.broker_payload = Payload(broker_payload)]]

UpdateOrder(j, journal_id, status, reason, broker_payload, at) ==
    [i \in 1..Len(j) |->
        IF j[i].id = journal_id
        THEN [j[i] EXCEPT !.updated_at = at,
                          !.status = Upper(status),
                          !.reason = reason,
                          !.broker_payload = Payload(broker_payload)]
        ELSE j[i]]

RECURSIVE DescSeq(_)
DescSeq(S) ==
    IF S = {} THEN <<>>
    ELSE LET m == CHOOSE x \in S : \A y \in S : y <= x
         IN  <<m>> \o DescSeq(S \ {m})

\* Variant: every live row is selected, whatever its status.
GetOpenLiveOrdersAnyStatus(j, limit) ==
    LET ids == DescSeq({i \in 1..Len(j) : j[i].mode = "live"})
    IN  SubSeq(ids, 1, IF Len(ids) < limit THEN Len(ids) ELSE limit)

\* Variant: every live row that is not final is selected.
GetOpenLiveOrdersNonFinal(j, limit) ==
    LET ids == DescSeq({i \in 1..Len(j) : j[i].mode = "live" /\ j[i].status \notin FINAL_STATES})
    IN  SubSeq(ids, 1, IF Len(ids) < limit THEN Len(ids) ELSE limit)

\* The ids of the rows get_open_live_orders returns, in the order returned.
GetOpenLiveOrders(j, limit) ==
    LET ids == DescSeq({i \in 1..Len(j) : j[i].mode = "live" /\ j[i].status \in OpenStatuses})
    IN  SubSeq(ids, 1, IF Len(ids) < limit THEN Len(ids) ELSE limit)

\* The dict get_open_live_orders builds for one selected row.
OpenLiveRow(row) ==
    [id |-> row.id, symbol |-> row.symbol, side |-> row.side, quantity |-> row.quantity,
     price |-> row.price, mode |-> row.mode, status |-> row.status, reason |-> row.reason,
     broker_order_id |-> row.broker_order_id, is_exit |-> row.is_exit]

(***************************************************************************)
(* ExecutionRouter                                                         *)
(***************************************************************************)
UtcDate(t) == t \div SecondsPerDay

DedupeKey(symbol, side, is_exit) ==
    <<symbol, side, IF is_exit THEN "EXIT" ELSE "ENTRY">>

IsDuplicate(last, key, t) ==
    key \in DOMAIN last /\ (t - last[key]) <= DuplicateWindow

\* Variant: a skipped call restarts the window.
LastOrderAtAlways(last, key, t) ==
    [k \in DOMAIN last \cup {key} |-> IF k = key THEN t ELSE last[k]]

\* _last_order_at after _is_duplicate(key) at time t.
LastOrderAtAfter(last, key, t) ==
    IF IsDuplicate(last, key, t) THEN last
    ELSE [k \in DOMAIN last \cup {key} |-> IF k = key THEN t ELSE last[k]]

\* Variant: the counter is never reset.
ResetOrdersTodayNever(n, day, t) == n

\* _orders_today after _reset_order_counter_if_new_day at time t.
ResetOrdersToday(n, day, t) == IF UtcDate(t) # day THEN 0 ELSE n

ResetOrdersDay(day, t) == IF UtcDate(t) # day THEN UtcDate(t) ELSE day

\* _apply_risk_guard: the empty record when the order is allowed.
Empty == [x \in {} |-> x]

ApplyRiskGuard(has_risk, cfg, m, n, side, is_exit, t) ==
    IF ~has_risk THEN Empty
    ELSE LET g == PreOrderGuard(cfg, m, n, is_exit, t)
         IN  IF g[1] THEN Empty
             ELSE [status |-> "REJECTED", reason |-> g[2], mode |-> m, side |-> side,
                   orders_today |-> n]

\* Variant: a deduplicated call is not journaled.
RecordResultDropsSkipped(j, res, m, is_exit, broker_payload, at) ==
    IF Get(res, "status", "UNKNOWN") = "SKIPPED" THEN j
    ELSE RecordOrder(j, Get(res, "symbol", ""), Get(res, "side", ""), Get(res, "quantity", 0),
                     Get(res, "price", 0), Get(res, "mode", m), Get(res, "status", "UNKNOWN"),
                     Get(res, "reason", ""), Get(res, "broker_order_id", ""),
                     broker_payload, is_exit, at)

\* Arguments _record_order passes to the journal for a result.
RecordResult(j, res, m, is_exit, broker_payload, at) ==
    RecordOrder(j, Get(res, "symbol", ""), Get(res, "side", ""), Get(res, "quantity", 0),
                Get(res, "price", 0), Get(res, "mode", m), Get(res, "status", "UNKNOWN"),
                Get(res, "reason", ""), Get(res, "broker_order_id", ""),
                broker_payload, is_exit, at)

Intent(m, symbol, side, quantity, price) ==
    [mode |-> m, symbol |-> symbol, side |-> side, quantity |-> quantity,
     price |-> Round2(price)]

\* f @@ g restricted to records: the fields of g added to (or replacing) those of f.
With(f, g) == [k \in DOMAIN f \cup DOMAIN g |-> IF k \in DOMAIN g THEN g[k] ELSE f[k]]

\* What the broker's place_order does when invoked: raise, or return a response.
Raises == [raises |-> TRUE, message |-> "timeout"]
Returns(response) == [raises |-> FALSE, response |-> response]

RespFlatId == Dict(<< <<"ok", Str("True")>>, <<"groww_order_id", Str("gid-1")>> >>)
RespNoId == Dict(<< <<"ok", Str("True")>>, <<"data", List(<< Dict(<< <<"id", Str("")>> >>) >>)>> >>)

PlaceBehaviours == {Raises, Returns(RespFlatId), Returns(RespNoId)}
NotInvoked == [raises |-> FALSE, response |-> None]

\* Variant: the paper branch forwards the order to the broker.
PaperDispatchViaBroker(n, intent) ==
    [res |-> With(intent, [status |-> "FILLED", mode |-> "paper", broker_order_id |-> ""]),
     orders_today |-> n + 1,
     placed |-> TRUE,
     payload |-> None]

\* Paper branch of route_order: outcome, counter, whether the broker was invoked.
PaperDispatch(n, intent) ==
    [res |-> With(intent, [status |-> "FILLED", mode |-> "paper", broker_order_id |-> ""]),
     orders_today |-> n + 1,
     placed |-> FALSE,
     payload |-> None]

\* Variant: the counter is incremented before the broker is called.
LiveDispatchCountsAttempts(has_broker, n, intent, behaviour) ==
    IF ~has_broker
    THEN [res |-> With(intent, [status |-> "REJECTED", reason |-> "broker_not_configured",
                                mode |-> "live"]),
          orders_today |-> n, placed |-> FALSE, payload |-> None]
    ELSE IF behaviour.raises
    THEN [res |-> With(intent, [status |-> "REJECTED", reason |-> <<"broker_error:", behaviour.message>>,
                                mode |-> "live"]),
          orders_today |-> n + 1, placed |-> TRUE, payload |-> None]
    ELSE [res |-> With(intent, [status |-> "SENT", mode |-> "live",
                                broker_order_id |-> ExtractBrokerOrderId(behaviour.response),
                                broker_response |-> behaviour.response,
                                orders_today |-> n + 1]),
          orders_today |-> n + 1, placed |-> TRUE,
          payload |-> IF behaviour.response.t = "dict" THEN behaviour.response ELSE Dict(<<>>)]

\* Live branch of route_order.
LiveDispatch(has_broker, n, intent, behaviour) ==
    IF ~has_broker
    THEN [res |-> With(intent, [status |-> "REJECTED", reason |-> "broker_not_configured",
                                mode |-> "live"]),
          orders_today |-> n, placed |-> FALSE, payload |-> None]
    ELSE IF behaviour.raises
    THEN [res |-> With(intent, [status |-> "REJECTED", reason |-> <<"broker_error:", behaviour.message>>,
                                mode |-> "live"]),
          orders_today |-> n, placed |-> TRUE, payload |-> None]
    ELSE [res |-> With(intent, [status |-> "SENT", mode |-> "live",
                                broker_order_id |-> ExtractBrokerOrderId(behaviour.response),
                                broker_response |-> behaviour.response,
                                orders_today |-> n + 1]),
          orders_today |-> n + 1, placed |-> TRUE,
          payload |-> IF behaviour.response.t = "dict" THEN behaviour.response ELSE Dict(<<>>)]

\* Fall-through of route_order for a mode that is neither paper nor live.
UnknownDispatch(m, n, intent) ==
    [res |-> With(intent, [status |-> "REJECTED", reason |-> <<"unknown_mode:", m>>]),
     orders_today |-> n, placed |-> FALSE, payload |-> None]

\* Variant: the risk guard is consulted before the dedup window.
RouteGuardFirst(m, has_broker, has_risk, cfg, last, n, day, symbol, side, quantity, price, is_exit, behaviour, t) ==
    LET side_u == Upper(side)
        key == DedupeKey(symbol, side_u, is_exit)
        intent == Intent(m, symbol, side_u, quantity, price)
        n0 == ResetOrdersToday(n, day, t)
        blocked == ApplyRiskGuard(has_risk, cfg, m, n0, side_u, is_exit, t)
    IN  IF blocked # Empty
        THEN [res |-> With(blocked, [symbol |-> symbol, quantity |-> quantity,
                                     price |-> Round2(price)]),
              orders_today |-> n0, orders_day |-> ResetOrdersDay(day, t),
              placed |-> FALSE, payload |-> None]
        ELSE IF IsDuplicate(last, key, t)
        THEN [res |-> With(intent, [status |-> "SKIPPED", reason |-> "duplicate_window"]),
              orders_today |-> n, orders_day |-> day, placed |-> FALSE, payload |-> None]
        ELSE With(IF m = "paper" THEN PaperDispatch(n0, intent)
                  ELSE IF m = "live" THEN LiveDispatch(has_broker, n0, intent, behaviour)
                  ELSE UnknownDispatch(m, n0, intent),
                  [orders_day |-> ResetOrdersDay(day, t)])

\* route_order up to, and not including, the journal write.
Route(m, has_broker, has_risk, cfg, last, n, day, symbol, side, quantity, price, is_exit, behaviour, t) ==
    LET side_u == Upper(side)
        key == DedupeKey(symbol, side_u, is_exit)
        intent == Intent(m, symbol, side_u, quantity, price)
        n0 == ResetOrdersToday(n, day, t)
        blocked == ApplyRiskGuard(has_risk, cfg, m, n0, side_u, is_exit, t)
    IN  IF IsDuplicate(last, key, t)
        THEN [res |-> With(intent, [status |-> "SKIPPED", reason |-> "duplicate_window"]),
              orders_today |-> n, orders_day |-> day, placed |-> FALSE, payload |-> None]
        ELSE IF blocked # Empty
        THEN [res |-> With(blocked, [symbol |-> symbol, quantity |-> quantity,
                                     price |-> Round2(price)]),
              orders_today |-> n0, orders_day |-> ResetOrdersDay(day, t),
              placed |-> FALSE, payload |-> None]
        ELSE With(IF m = "paper" THEN PaperDispatch(n0, intent)
                  ELSE IF m = "live" THEN LiveDispatch(has_broker, n0, intent, behaviour)
                  ELSE UnknownDispatch(m, n0, intent),
                  [orders_day |-> ResetOrdersDay(day, t)])

\* The value the orders_today property returns at time t.
OrdersTodayProperty(n, day, t) == ResetOrdersToday(n, day, t)

(***************************************************************************)
(* Session snapshot of the console.  Money is in thousandths of a rupee,   *)
(* percentages are in units of 1/10000 (0.02 is 200), and an entry price   *)
(* is a fraction [n, d] in lowest terms.  A console is the record of the   *)
(* fields _serialize_state reads and _restore_state writes.                *)
(***************************************************************************)
RECURSIVE Gcd(_, _)
Gcd(a, b) == IF b = 0 THEN a ELSE Gcd(b, a % b)

Abs(a) == IF a < 0 THEN -a ELSE a

Min(a, b) == IF a <= b THEN a ELSE b

\* The fraction n / d, d > 0, in lowest terms.
Rat(n, d) ==
    LET g == Gcd(Abs(n), d)
    IN  IF n = 0 THEN [n |-> 0, d |-> 1] ELSE [n |-> n \div g, d |-> d \div g]

PositionState(symbol, quantity, entry_price, side, opened_at) ==
    [symbol |-> symbol, quantity |-> quantity, entry_price |-> entry_price, side |-> side,
     opened_at |-> opened_at]

\* str.strip() is empty
Blank(s) == s \in {"", " "}

\* seq[-n:]
LastN(seq, n) == SubSeq(seq, Max(1, Len(seq) - n + 1), Len(seq))

\* The values of a dict, as a list.
RECURSIVE Values(_)
Values(f) ==
    IF DOMAIN f = {} THEN <<>>
    ELSE LET k == CHOOSE x \in DOMAIN f : TRUE
         IN  <<f[k]>> \o Values([x \in DOMAIN f \ {k} |-> f[x]])

\* Variant: the log keeps every message.
LogEventUnbounded(log, message) == Append(log, message)

\* _log_event: the log keeps its last 30 messages.
LogEvent(log, message) == LastN(Append(log, message), 30)

SerializeState(c, symbols) ==
    [version |-> 1,
     cash |-> c.cash,
     realized_pnl |-> c.realized_pnl,
     positions |-> Values(c.positions),
     event_log |-> LastN(c.event_log, 80),
     equity_history |-> LastN(c.equity_history, 500),
     watchlist |-> symbols,
     router_mode |-> c.mode,
     risk_config |-> c.config]

\* The loop of _restore_state over state["positions"].
RECURSIVE RestorePositions(_, _)
RestorePositions(restored, entries) ==
    IF entries = <<>> THEN restored
    ELSE LET entry == Head(entries)
             symbol == Upper(Get(entry, "symbol", ""))
             position == PositionState(symbol, Get(entry, "quantity", 0),
                                       Get(entry, "entry_price", Rat(0, 1)),
                                       Upper(Get(entry, "side", "LONG")),
                                       Get(entry, "opened_at", ""))
         IN  IF symbol = "" THEN RestorePositions(restored, Tail(entries))
             ELSE RestorePositions(
                      [x \in DOMAIN restored \cup {symbol} |->
                          IF x = symbol THEN position ELSE restored[x]],
                      Tail(entries))

RECURSIVE RestoreWatchlist(_)
RestoreWatchlist(items) ==
    IF items = <<>> THEN <<>>
    ELSE (IF Blank(Head(items)) THEN <<>> ELSE <<Upper(Head(items))>>)
         \o RestoreWatchlist(Tail(items))

\* The risk config after _restore_state: every field but initial_capital is read.
RestoreRiskConfig(cfg, risk) ==
    [f \in DOMAIN cfg |-> IF f = "initial_capital" THEN cfg[f] ELSE Get(risk, f, cfg[f])]

\* Variant: the cash of the running console is kept.
RestoreCashKept(c, state) == c.cash

RestoreCash(c, state) == Get(state, "cash", c.cash)

\* _restore_state on a loaded document; the router mode is not touched.
RestoreState(c, state) ==
    [c EXCEPT !.cash = RestoreCash(c, state),
              !.realized_pnl = Get(state, "realized_pnl", c.realized_pnl),
              !.positions = RestorePositions(<<>>, Get(state, "positions", <<>>)),
              !.event_log = LogEvent(LastN(Get(state, "event_log", <<>>), 80),
                                     "Session restored from saved state."),
              !.equity_history = LastN(Get(state, "equity_history", <<>>), 500),
              !.config = RestoreRiskConfig(c.config, Get(state, "risk_config", <<>>)),
              !.runtime_watchlist = RestoreWatchlist(Get(state, "watchlist", <<>>))]

(***************************************************************************)
(* SessionStateStore.  A file is [doc, written]: json.dump writes the      *)
(* document in Chunks pieces, and json.load raises on fewer.               *)
(***************************************************************************)
Chunks == 2

Complete(file) == file.written = Chunks

\* save_state adds saved_at to a copy of the state.
Stamped(state, at) == With(state, [saved_at |-> at])

\* Variant: the temp file is renamed over the target before it is fully written.
ReplaceReadyEarly(file) == TRUE

\* os.replace runs after the with block has written and closed the temp file.
ReplaceReady(file) == Complete(file)

\* json.load on an open file: the document, or None when it raises.
JsonLoad(file) == IF Complete(file) THEN file.doc ELSE None

(***************************************************************************)
(* PositionSizer.calculate_quantity.  int() truncates toward zero; the     *)
(* budgets are kept as capital * percentage, in 1/10000 of a thousandth.   *)
(***************************************************************************)
\* int(n / d) for d > 0
Trunc(n, d) == IF n >= 0 THEN n \div d ELSE -((-n) \div d)

CalculateQuantityNoCashCap(available_cash, price, risk_per_trade_pct, stop_loss_pct, max_position_pct, capital_base) ==
    IF price <= 0 \/ available_cash <= 0 THEN 0
    ELSE LET safe_stop_loss == Max(stop_loss_pct, 10)
             risk_budget == capital_base * Max(risk_per_trade_pct, 10)
             max_position_budget == capital_base * Max(max_position_pct, 100)
             qty_by_risk == Trunc(risk_budget, price * safe_stop_loss)
             qty_by_allocation == Trunc(max_position_budget, price * 10000)
         IN  Max(0, Min(qty_by_risk, qty_by_allocation))

CalculateQuantity(available_cash, price, risk_per_trade_pct, stop_loss_pct, max_position_pct, capital_base) ==
    IF price <= 0 \/ available_cash <= 0 THEN 0
    ELSE LET safe_stop_loss == Max(stop_loss_pct, 10)
             risk_budget == capital_base * Max(risk_per_trade_pct, 10)
             max_position_budget == capital_base * Max(max_position_pct, 100)
             qty_by_risk == Trunc(risk_budget, price * safe_stop_loss)
             qty_by_allocation == Trunc(max_position_budget, price * 10000)
             qty_by_cash == Trunc(available_cash, price)
         IN  Max(0, Min(qty_by_risk, Min(qty_by_allocation, qty_by_cash)))

(***************************************************************************)
(* RiskEngine.check_exit and check_exit_short.  Prices are Python floats:  *)
(* a decimal price that is not a binary fraction is held as the nearest    *)
(* double, slightly above or below it.  current - entry is then exact      *)
(* (the prices are within a factor of two), so the computed move is off    *)
(* the true move in the direction of that error, by far more than the      *)
(* rounding of the division or of the threshold, and by far less than the  *)
(* distance between two different moves of the model.  The comparison      *)
(* with a threshold is therefore the exact one, except when the true move  *)
(* equals the threshold; then the direction of the error decides.          *)
(***************************************************************************)
\* The sign of float(x) - x for the price x (in thousandths), on the prices of the model:
\* 9.8 is held as 9.800000000000000710..., 10.2 as 10.199999999999999289...
ReprErr(x) ==
    CASE x \in {2450, 2600, 9800, 9810, 9900, 10390, 10400, 10410, 98010} -> 1
      [] x \in {2400, 2550, 9600, 9790, 10200, 97990, 103990} -> -1
      [] OTHER -> 0

Sign(a) == IF a > 0 THEN 1 ELSE IF a < 0 THEN -1 ELSE 0

\* The sign of (computed - true) for the move (current - entry) / entry.  An entry price
\* that is a weighted average is taken as held exactly.
Skew(entry_price, current_price) ==
    Sign(ReprErr(current_price) - (IF entry_price.d = 1 THEN ReprErr(entry_price.n) ELSE 0))

\* num / den <= bound / 10000 and num / den >= bound / 10000 as computed, for den > 0,
\* where skew is the sign of (computed - true) of the quotient.
FloatLeq(num, den, skew, bound) ==
    \/ num * 10000 < bound * den
    \/ num * 10000 = bound * den /\ skew <= 0
FloatGeq(num, den, skew, bound) ==
    \/ num * 10000 > bound * den
    \/ num * 10000 = bound * den /\ skew >= 0

\* The comparisons of check_exit on a move num / den.
ExitOnMove(cfg, num, den, skew) ==
    IF FloatLeq(num, den, skew, -Abs(cfg.stop_loss_pct)) THEN <<TRUE, "STOP_LOSS">>
    ELSE IF FloatGeq(num, den, skew, Abs(cfg.take_profit_pct)) THEN <<TRUE, "TAKE_PROFIT">>
    ELSE <<FALSE, "NONE">>

\* drawdown = (current_price - entry_price) / entry_price
CheckExit(cfg, entry_price, current_price) ==
    IF entry_price.n <= 0 THEN <<FALSE, "NONE">>
    ELSE ExitOnMove(cfg, current_price * entry_price.d - entry_price.n, entry_price.n,
                    Skew(entry_price, current_price))

\* move = (entry_price - current_price) / entry_price
CheckExitShort(cfg, entry_price, current_price) ==
    IF entry_price.n <= 0 THEN <<FALSE, "NONE">>
    ELSE ExitOnMove(cfg, entry_price.n - current_price * entry_price.d, entry_price.n,
                    -Skew(entry_price, current_price))

(***************************************************************************)
(* RiskEngine.can_open_position and daily_loss_breached.                   *)
(***************************************************************************)
\* f"Position size exceeds max allocation ({max_position_pct:.0%})." on the percentages of
\* the model: .0% rounds to a whole percent.
AllocationReason(max_position_pct) ==
    CASE max_position_pct = 100 -> "Position size exceeds max allocation (1%)."
      [] max_position_pct = 560 -> "Position size exceeds max allocation (6%)."
      [] max_position_pct = 1000 -> "Position size exceeds max allocation (10%)."
      [] max_position_pct = 2000 -> "Position size exceeds max allocation (20%)."

CanOpenPositionCashFirst(cfg, available_cash, current_exposure, entry_price, quantity) ==
    LET notional == entry_price * quantity
    IN  IF quantity <= 0 THEN <<FALSE, "Quantity is zero.">>
        ELSE IF notional > available_cash THEN <<FALSE, "Insufficient cash for position.">>
        ELSE IF notional * 10000 > cfg.initial_capital * cfg.max_position_pct
             THEN <<FALSE, AllocationReason(cfg.max_position_pct)>>
        ELSE IF current_exposure + notional > cfg.initial_capital
             THEN <<FALSE, "Projected exposure exceeds total capital.">>
        ELSE <<TRUE, "OK">>

CanOpenPosition(cfg, available_cash, current_exposure, entry_price, quantity) ==
    LET notional == entry_price * quantity
    IN  IF quantity <= 0 THEN <<FALSE, "Quantity is zero.">>
        ELSE IF notional * 10000 > cfg.initial_capital * cfg.max_position_pct
             THEN <<FALSE, AllocationReason(cfg.max_position_pct)>>
        ELSE IF notional > available_cash THEN <<FALSE, "Insufficient cash for position.">>
        ELSE IF current_exposure + notional > cfg.initial_capital
             THEN <<FALSE, "Projected exposure exceeds total capital.">>
        ELSE <<TRUE, "OK">>

\* realized_pnl <= -abs(initial_capital * max_daily_loss_pct)
DailyLossBreached(cfg, pnl) == pnl * 10000 <= -Abs(cfg.initial_capital * cfg.max_daily_loss_pct)

(***************************************************************************)
(* The trading half of LiveTradingConsole: _process_signals,               *)
(* _enter_position, _exit_position and execute_manual_order.  A handler    *)
(* routes several orders, so the router and the console are threaded       *)
(* through it as records: r is the router's mutable fields, c the          *)
(* console's, with c.router the router.  The risk config, the mode and     *)
(* the clock do not change inside a handler.                               *)
(***************************************************************************)
Put(d, key, value) == [k \in DOMAIN d \cup {key} |-> IF k = key THEN value ELSE d[k]]
Del(d, key) == [k \in DOMAIN d \ {key} |-> d[k]]
FirstN(seq, n) == SubSeq(seq, 1, Min(n, Len(seq)))

\* The router after route_order has returned routed and the journal has become j.
Routed(r, m, symbol, side, quantity, price, is_exit, behaviour, t, routed, j) ==
    LET ret == With(routed.res, [journal_id |-> Len(j)])
    IN  [last_order_at |-> LastOrderAtAfter(r.last_order_at,
                                            DedupeKey(symbol, Upper(side), is_exit), t),
         orders_today |-> routed.orders_today,
         orders_day |-> routed.orders_day,
         journal |-> j,
         place_calls |-> IF routed.placed
                         THEN Append(r.place_calls,
                                     [trading_symbol |-> NormalizeSymbol(symbol),
                                      quantity |-> quantity, price |-> price,
                                      exchange |-> "NSE", segment |-> "CASH",
                                      transaction_type |-> Upper(side),
                                      router_mode |-> m])
                         ELSE r.place_calls,
         result |-> ret,
         calls |-> Append(r.calls,
                          [at |-> t, symbol |-> symbol, side |-> side,
                           quantity |-> quantity, price |-> price, is_exit |-> is_exit,
                           mode |-> m,
                           behaviour |-> IF routed.placed THEN behaviour ELSE NotInvoked,
                           rows_before |-> Len(r.journal), rows_after |-> Len(j),
                           counter_before |-> OrdersTodayProperty(r.orders_today, r.orders_day, t),
                           counter_after |-> OrdersTodayProperty(routed.orders_today,
                                                                 routed.orders_day, t),
                           result |-> ret])]

\* The journal write of route_order on its outcome routed.
Journaled(r, m, symbol, side, quantity, price, is_exit, behaviour, t, routed) ==
    Routed(r, m, symbol, side, quantity, price, is_exit, behaviour, t, routed,
           RecordResult(r.journal, routed.res, m, is_exit, routed.payload, t))

\* route_order with its journal write, on the router r at time t.
RouteOrderOn(r, m, has_broker, has_risk, cfg, symbol, side, quantity, price, is_exit, behaviour, t) ==
    Journaled(r, m, symbol, side, quantity, price, is_exit, behaviour, t,
              Route(m, has_broker, has_risk, cfg, r.last_order_at, r.orders_today,
                    r.orders_day, symbol, side, quantity, price, is_exit, behaviour, t))

\* The environment of a handler: e.mode, e.broker, e.risk_engine, e.config, e.now,
\* e.symbol_controls, and e.behaviour, what the broker does when asked to place an order.
RouteIn(e, r, symbol, side, quantity, price, is_exit) ==
    RouteOrderOn(r, e.mode, e.broker, e.risk_engine, e.config, symbol, side, quantity, price,
                 is_exit, e.behaviour, e.now)

\* Variant: every order that is not skipped is taken as filled.
AcceptedUnlessSkipped(order) == order.status # "SKIPPED"

Accepted(order) == order.status \in {"FILLED", "SENT"}

\* RiskEngine.is_signal_enabled
IsSignalEnabled(cfg, signal) ==
    IF signal = 1 THEN cfg.buy_enabled ELSE IF signal = -1 THEN cfg.sell_enabled ELSE TRUE

\* _is_symbol_side_enabled
IsSymbolSideEnabled(controls, symbol, side) ==
    Get(Get(controls, symbol, [buy |-> TRUE, sell |-> TRUE]), Lower(side), TRUE)

SignalLabel(signal) == IF signal = 1 THEN "BUY" ELSE IF signal = -1 THEN "SELL" ELSE "HOLD"

\* _append_trigger: newest first, 200 kept; round(price, 4) leaves a price in thousandths.
AppendTrigger(triggers, symbol, signal, price, action, t) ==
    IF signal \notin {1, -1} THEN triggers
    ELSE FirstN(<<[timestamp |-> t, symbol |-> symbol, signal_text |-> SignalLabel(signal),
                   price |-> price, action |-> action]>> \o triggers, 200)

\* f"BUY_BLOCKED:{reason}" and f"SELL_BLOCKED:{reason}" on the reasons of can_open_position.
BlockedAction(side, reason) ==
    CASE side = "BUY" /\ reason = "Insufficient cash for position."
            -> "BUY_BLOCKED:Insufficient cash for position."
      [] side = "BUY" /\ reason = "Projected exposure exceeds total capital."
            -> "BUY_BLOCKED:Projected exposure exceeds total capital."
      [] side = "SELL" /\ reason = "Insufficient cash for position."
            -> "SELL_BLOCKED:Insufficient cash for position."
      [] side = "SELL" /\ reason = "Projected exposure exceeds total capital."
            -> "SELL_BLOCKED:Projected exposure exceeds total capital."
      [] side = "BUY" /\ reason = "Position size exceeds max allocation (10%)."
            -> "BUY_BLOCKED:Position size exceeds max allocation (10%)."
      [] side = "SELL" /\ reason = "Position size exceeds max allocation (10%)."
            -> "SELL_BLOCKED:Position size exceeds max allocation (10%)."

\* Variant: the proceeds are booked as the profit.
PnlGross(price, entry_price, quantity) == price * quantity

\* (price - entry_price) * quantity in thousandths; exact whenever the quantity is the
\* whole position or the entry price is a whole number of thousandths.
Pnl(price, entry_price, quantity) ==
    ((price * entry_price.d - entry_price.n) * quantity) \div entry_price.d

\* ((entry_price * quantity) + (price * added)) / max(new_qty, 1)
WeightedAvg(entry_price, quantity, price, added) ==
    Rat(entry_price.n * quantity + price * added * entry_price.d,
        entry_price.d * Max(quantity + added, 1))

\* _enter_position after route_order has left the router as r.
Entered(e, c, symbol, quantity, price, side, r) ==
    LET order == r.result
        direction == IF side = "BUY" THEN "LONG" ELSE "SHORT"
    IN  IF Accepted(order)
        THEN [c EXCEPT !.router = r,
                       !.cash = IF direction = "LONG" THEN @ - quantity * price
                                ELSE @ + quantity * price,
                       !.positions = Put(@, symbol, PositionState(symbol, quantity, Rat(price, 1),
                                                                  direction, e.now)),
                       !.event_log = LogEvent(@, <<symbol, side, quantity, Round2(price),
                                                   order.status>>)]
        ELSE IF order.status # "SKIPPED"
        THEN [c EXCEPT !.router = r,
                       !.event_log = LogEvent(@, <<symbol, side, "rejected",
                                                   Get(order, "reason", "unknown")>>)]
        ELSE [c EXCEPT !.router = r]

EnterPosition(e, c, symbol, quantity, price, side) ==
    Entered(e, c, symbol, quantity, price, side,
            RouteIn(e, c.router, symbol, side, quantity, price, FALSE))

\* _exit_position of an open position after route_order has left the router as r.
Exited(e, c, symbol, price, reason, r) ==
    LET position == c.positions[symbol]
        exit_side == IF position.side = "LONG" THEN "SELL" ELSE "BUY"
        order == r.result
        pnl == IF position.side = "LONG"
               THEN Pnl(price, position.entry_price, position.quantity)
               ELSE -Pnl(price, position.entry_price, position.quantity)
    IN  IF Accepted(order)
        THEN [c EXCEPT !.router = r,
                       !.cash = IF position.side = "LONG" THEN @ + position.quantity * price
                                ELSE @ - position.quantity * price,
                       !.realized_pnl = @ + pnl,
                       !.event_log = LogEvent(@, <<symbol, exit_side, position.quantity,
                                                   Round2(price), reason, pnl, order.status>>),
                       !.positions = Del(@, symbol)]
        ELSE IF order.status # "SKIPPED"
        THEN [c EXCEPT !.router = r,
                       !.event_log = LogEvent(@, <<symbol, "SELL", "rejected",
                                                   Get(order, "reason", "unknown")>>)]
        ELSE [c EXCEPT !.router = r]

ExitPosition(e, c, symbol, price, reason) ==
    IF symbol \notin DOMAIN c.positions THEN c
    ELSE Exited(e, c, symbol, price, reason,
                RouteIn(e, c.router, symbol,
                        IF c.positions[symbol].side = "LONG" THEN "SELL" ELSE "BUY",
                        c.positions[symbol].quantity, price, TRUE))

\* A snapshot is [symbol, has_price, price, signal]; has_price is FALSE when price is None.
\* The exposure of the open positions at the prices of the snapshots.
RECURSIVE CurrentExposure(_, _)
CurrentExposure(held, snapshots) ==
    IF snapshots = <<>> THEN 0
    ELSE LET snapshot == Head(snapshots)
         IN  (IF snapshot.symbol \in DOMAIN held /\ snapshot.has_price
              THEN held[snapshot.symbol].quantity * snapshot.price ELSE 0)
             + CurrentExposure(held, Tail(snapshots))

\* Variant: a position closed on an opposing signal is reversed in the same pass.
ManagePositionReverses(e, c, snapshot) ==
    LET symbol == snapshot.symbol
        current_position == c.positions[symbol]
        long == current_position.side = "LONG"
        closing == IF long THEN -1 ELSE 1
        reason == IF long THEN "STRATEGY_SELL" ELSE "STRATEGY_BUY"
    IN  IF snapshot.signal = closing /\ IsSignalEnabled(e.config, closing)
        THEN EnterPosition(e, ExitPosition(e, c, symbol, snapshot.price, reason), symbol,
                           current_position.quantity, snapshot.price,
                           IF long THEN "SELL" ELSE "BUY")
        ELSE c

\* The branch of _process_signals for a symbol with an open position.
ManagePosition(e, c, snapshot) ==
    LET symbol == snapshot.symbol
        price == snapshot.price
        signal == snapshot.signal
        current_position == c.positions[symbol]
        long == current_position.side = "LONG"
        check == IF long THEN CheckExit(e.config, current_position.entry_price, price)
                 ELSE CheckExitShort(e.config, current_position.entry_price, price)
        closing == IF long THEN -1 ELSE 1
        side == IF long THEN "sell" ELSE "buy"
        side_enabled == IF long THEN e.config.sell_enabled ELSE e.config.buy_enabled
    IN  IF check[1] /\ side_enabled
        THEN ExitPosition(e, [c EXCEPT !.signal_triggers =
                                  AppendTrigger(@, symbol, closing, price, check[2], e.now)],
                          symbol, price, check[2])
        ELSE IF signal = closing /\ IsSignalEnabled(e.config, signal)
        THEN IF IsSymbolSideEnabled(e.symbol_controls, symbol, side)
             THEN ExitPosition(e, [c EXCEPT !.signal_triggers =
                                       AppendTrigger(@, symbol, signal, price,
                                                     IF long THEN "STRATEGY_SELL"
                                                     ELSE "STRATEGY_BUY", e.now)],
                               symbol, price, IF long THEN "STRATEGY_SELL" ELSE "STRATEGY_BUY")
             ELSE [c EXCEPT !.signal_triggers =
                       AppendTrigger(@, symbol, signal, price,
                                     IF long THEN "SELL_DISABLED" ELSE "BUY_DISABLED", e.now)]
        ELSE c

\* The branch of _process_signals for a flat symbol: st = [c, current_exposure].
OpenPosition(e, st, snapshot) ==
    LET c == st.c
        symbol == snapshot.symbol
        price == snapshot.price
        signal == snapshot.signal
        side == IF signal = 1 THEN "BUY" ELSE "SELL"
        qty == CalculateQuantity(c.cash, price, e.config.risk_per_trade_pct,
                                 e.config.stop_loss_pct, e.config.max_position_pct,
                                 e.config.initial_capital)
        verdict == CanOpenPosition(e.config,
                                   IF signal = 1 THEN c.cash
                                   ELSE Max(c.cash, e.config.initial_capital),
                                   st.current_exposure, price, qty)
    IN  IF ~(signal \in {1, -1} /\ IsSignalEnabled(e.config, signal)) THEN st
        ELSE IF ~IsSymbolSideEnabled(e.symbol_controls, symbol, side)
        THEN [st EXCEPT !.c.signal_triggers =
                  AppendTrigger(@, symbol, signal, price,
                                IF signal = 1 THEN "BUY_DISABLED" ELSE "SELL_DISABLED", e.now)]
        ELSE IF ~verdict[1]
        THEN IF qty > 0
             THEN [st EXCEPT !.c.event_log =
                                LogEvent(@, <<symbol, IF signal = 1 THEN "BUY blocked"
                                                      ELSE "SHORT blocked", verdict[2]>>),
                             !.c.signal_triggers =
                                AppendTrigger(@, symbol, signal, price,
                                              BlockedAction(side, verdict[2]), e.now)]
             ELSE st
        ELSE [c |-> EnterPosition(e, [c EXCEPT !.signal_triggers =
                                          AppendTrigger(@, symbol, signal, price,
                                                        IF signal = 1 THEN "BUY_EXECUTED"
                                                        ELSE "SELL_EXECUTED", e.now)],
                                  symbol, qty, price, side),
              current_exposure |-> st.current_exposure + qty * price]

\* The loop of _process_signals over the snapshots.
RECURSIVE SignalLoop(_, _, _)
SignalLoop(e, st, snapshots) ==
    IF snapshots = <<>> THEN st
    ELSE LET snapshot == Head(snapshots)
             next == IF ~snapshot.has_price THEN st
                     ELSE IF snapshot.symbol \in DOMAIN st.c.positions
                     THEN [st EXCEPT !.c = ManagePosition(e, st.c, snapshot)]
                     ELSE OpenPosition(e, st, snapshot)
         IN  SignalLoop(e, next, Tail(snapshots))

ProcessSignalsOn(e, c, snapshots) ==
    IF DailyLossBreached(e.config, c.realized_pnl)
    THEN [c EXCEPT !.event_log =
              LogEvent(@, <<"Daily max-loss breached. New entries are disabled.">>)]
    ELSE SignalLoop(e, [c |-> c, current_exposure |-> CurrentExposure(c.positions, snapshots)],
                    snapshots).c

\* closing_qty = min(quantity, position.quantity); covering_qty likewise
ClosingQtyWholeOrder(quantity, held) == quantity

ClosingQty(quantity, held) == Min(quantity, held)

\* The position bookkeeping of execute_manual_order after an accepted order, for a symbol
\* with an open position: the balance, the realized P&L booked, and the position left
\* (quantity 0: none).
ManualFill(c, position, symbol, side, quantity, price, t) ==
    LET same == (position.side = "LONG") = (side = "BUY")
        sign == IF position.side = "LONG" THEN 1 ELSE -1
        closing_qty == ClosingQty(quantity, position.quantity)
        remaining == position.quantity - closing_qty
        realized_delta == sign * Pnl(price, position.entry_price, closing_qty)
    IN  IF same
        THEN [c EXCEPT !.cash = @ - sign * quantity * price,
                       !.positions = Put(@, symbol,
                            [position EXCEPT !.quantity = position.quantity + quantity,
                                             !.entry_price = WeightedAvg(position.entry_price,
                                                                 position.quantity, price, quantity)]),
                       !.event_log = LogEvent(@, <<symbol, "MANUAL", side, quantity, Round2(price)>>)]
        ELSE [c EXCEPT !.cash = @ + sign * closing_qty * price
                                  + (IF quantity > closing_qty
                                     THEN sign * (quantity - closing_qty) * price ELSE 0),
                       !.realized_pnl = @ + realized_delta,
                       !.positions =
                            IF quantity > closing_qty
                            THEN Put(@, symbol,
                                     PositionState(symbol, quantity - closing_qty, Rat(price, 1),
                                                   IF position.side = "LONG" THEN "SHORT"
                                                   ELSE "LONG", t))
                            ELSE IF remaining > 0
                            THEN Put(@, symbol, [position EXCEPT !.quantity = remaining])
                            ELSE Del(@, symbol),
                       !.event_log =
                            IF realized_delta # 0
                            THEN LogEvent(@, <<symbol, "MANUAL", side, quantity, Round2(price),
                                               realized_delta>>)
                            ELSE LogEvent(@, <<symbol, "MANUAL", side, quantity, Round2(price)>>)]

\* execute_manual_order once the symbol and side are validated and normalized and
\* route_order has left the router as r.
ManualRouted(e, c, symbol, side, quantity, price, held, r) ==
    LET order == r.result
        c1 == [c EXCEPT !.router = r]
    IN  IF ~Accepted(order)
        THEN [c |-> IF order.status # "SKIPPED"
                    THEN [c1 EXCEPT !.event_log = LogEvent(@, <<symbol, side, "rejected",
                                                                Get(order, "reason", "unknown")>>)]
                    ELSE c1,
              ret |-> order]
        ELSE IF ~held
        THEN [c |-> [c1 EXCEPT !.cash = IF side = "BUY" THEN @ - quantity * price
                                        ELSE @ + quantity * price,
                               !.positions = Put(@, symbol,
                                    PositionState(symbol, quantity, Rat(price, 1),
                                                  IF side = "BUY" THEN "LONG" ELSE "SHORT",
                                                  e.now)),
                               !.event_log = LogEvent(@, <<symbol, "MANUAL", side, quantity,
                                                           Round2(price)>>)],
              ret |-> order]
        ELSE [c |-> ManualFill(c1, c.positions[symbol], symbol, side, quantity, price, e.now),
              ret |-> order]

\* execute_manual_order with reason "MANUAL": [c, ret], the console and the returned order.
\* The symbols and sides of the model carry no surrounding blanks, so strip() keeps them.
ExecuteManualOrderOn(e, c, symbol_arg, side_arg, quantity, price) ==
    LET symbol == Upper(symbol_arg)
        side == Upper(side_arg)
        held == symbol \in DOMAIN c.positions
        is_exit == held /\ \/ c.positions[symbol].side = "LONG" /\ side = "SELL"
                           \/ c.positions[symbol].side = "SHORT" /\ side = "BUY"
    IN  IF side \notin {"BUY", "SELL"}
        THEN [c |-> c, ret |-> [status |-> "REJECTED", reason |-> "invalid_side"]]
        ELSE IF quantity <= 0 \/ price <= 0
        THEN [c |-> c, ret |-> [status |-> "REJECTED", reason |-> "invalid_quantity_or_price"]]
        ELSE ManualRouted(e, c, symbol, side, quantity, price, held,
                          RouteIn(e, c.router, symbol, side, quantity, price, is_exit))

(***************************************************************************)
(* Initial state: a router as constructed, with an empty journal.          *)
(***************************************************************************)
RiskConfig(kill, hours, max_orders) ==
    [initial_capital |-> 100000000, max_daily_loss_pct |-> 300, max_position_pct |-> 1000,
     risk_per_trade_pct |-> 100, stop_loss_pct |-> 200, take_profit_pct |-> 400,
     buy_enabled |-> TRUE, sell_enabled |-> TRUE,
     kill_switch_enabled |-> kill, market_hours_only |-> hours, max_orders_per_day |-> max_orders]

\* Router setups: whether a broker and a risk engine are configured, and the risk config.
Setups ==
    {[broker |-> TRUE, risk_engine |-> FALSE, config |-> RiskConfig(FALSE, FALSE, 1)],
     [broker |-> TRUE, risk_engine |-> TRUE, config |-> RiskConfig(FALSE, FALSE, 1)],
     [broker |-> TRUE, risk_engine |-> TRUE, config |-> RiskConfig(FALSE, FALSE, 2)],
     [broker |-> TRUE, risk_engine |-> TRUE, config |-> RiskConfig(TRUE, FALSE, 2)],
     [broker |-> TRUE, risk_engine |-> TRUE, config |-> RiskConfig(FALSE, TRUE, 1)],
     [broker |-> FALSE, risk_engine |-> TRUE, config |-> RiskConfig(FALSE, FALSE, 1)]}

\* The router's own fields after __init__, with an empty journal and an idle broker.
RouterFresh ==
    /\ now = StartTime
    /\ last_order_at = Empty
    /\ orders_today = 0
    /\ orders_day = UtcDate(StartTime)
    /\ journal = <<>>
    /\ place_calls = <<>>
    /\ status_calls = <<>>
    /\ result = Empty
    /\ calls = <<>>
    /\ recon = <<>>
    /\ ticks = 0

InitRouter ==
    /\ mode \in {Lower(m) : m \in CtorModes}
    /\ \E s \in Setups : broker = s.broker /\ risk_engine = s.risk_engine /\ config = s.config
    /\ RouterFresh

JournalIdle == jcalls = <<>>
\* ret is what the last save_state returned: "True", "False", or "crashed" when it never returned.
SaverIdle == [pc |-> "idle", state |-> None, temp |-> 0, prev |-> None, ret |-> "none"]
ReaderIdle == [pc |-> "idle", handle |-> 0]
StoreIdle ==
    /\ inodes = <<>> /\ state_file = 0 /\ temp_files = {}
    /\ saver = SaverIdle /\ reader = ReaderIdle /\ loads = <<>>
ConsoleIdle ==
    /\ cash = 100000000 /\ realized_pnl = 0 /\ positions = <<>> /\ event_log = <<>>
    /\ equity_history = <<>> /\ runtime_watchlist = <<>> /\ signal_triggers = <<>>
    /\ symbol_controls = <<>> /\ session = <<>>
CalcIdle == calc = [fn |-> "none"]
BusIdle == event_bus = [subscribers |-> <<>>, published |-> <<>>]
OthersIdle == JournalIdle /\ StoreIdle /\ ConsoleIdle /\ CalcIdle /\ BusIdle

Init == InitRouter /\ guard = Empty /\ OthersIdle

(***************************************************************************)
(* Actions                                                                 *)
(***************************************************************************)
RouteOrder(symbol, side, quantity, price, is_exit, behaviour) ==
    LET r == Route(mode, broker, risk_engine, config, last_order_at, orders_today, orders_day,
                   symbol, side, quantity, price, is_exit, behaviour, now)
        j == RecordResult(journal, r.res, mode, is_exit, r.payload, now)
        ret == With(r.res, [journal_id |-> Len(j)])
    IN  /\ (~r.placed => behaviour = Raises)
        /\ last_order_at' = LastOrderAtAfter(last_order_at, DedupeKey(symbol, Upper(side), is_exit), now)
        /\ orders_today' = r.orders_today
        /\ orders_day' = r.orders_day
        /\ journal' = j
        /\ place_calls' = IF r.placed
                          THEN Append(place_calls,
                                      [trading_symbol |-> NormalizeSymbol(symbol),
                                       quantity |-> quantity, price |-> price,
                                       exchange |-> "NSE", segment |-> "CASH",
                                       transaction_type |-> Upper(side),
                                       router_mode |-> mode])
                          ELSE place_calls
        /\ result' = ret
        /\ calls' = Append(calls, [at |-> now, symbol |-> symbol, side |-> side,
                                   quantity |-> quantity, price |-> price, is_exit |-> is_exit,
                                   mode |-> mode, behaviour |-> IF r.placed THEN behaviour ELSE NotInvoked,
                                   rows_before |-> Len(journal), rows_after |-> Len(j),
                                   counter_before |-> OrdersTodayProperty(orders_today, orders_day, now),
                                   counter_after |-> OrdersTodayProperty(r.orders_today, r.orders_day, now),
                                   result |-> ret])
        /\ UNCHANGED <<mode, broker, risk_engine, config, now, status_calls, recon, ticks,
                   guard, others>>

SetMode(m) ==
    LET selected == Lower(IF m = "" THEN "paper" ELSE m)
    IN  /\ mode' = IF selected \in {"paper", "live"} THEN selected ELSE "paper"
        /\ UNCHANGED <<broker, risk_engine, config, now, last_order_at, orders_today, orders_day,
                       journal, place_calls, status_calls, result, calls, recon, ticks,
                   guard, others>>

\* Reading the orders_today property.
ReadOrdersToday ==
    /\ orders_today' = ResetOrdersToday(orders_today, orders_day, now)
    /\ orders_day' = ResetOrdersDay(orders_day, now)
    /\ UNCHANGED <<mode, broker, risk_engine, config, now, last_order_at, journal, place_calls,
                   status_calls, result, calls, recon, ticks,
                   guard, others>>

\* Time passes.
Tick(d) ==
    /\ now' = now + d
    /\ ticks' = ticks + 1
    /\ UNCHANGED <<mode, broker, risk_engine, config, last_order_at, orders_today, orders_day,
                   journal, place_calls, status_calls, result, calls, recon,
                   guard, others>>

\* What the broker's get_order_status does when invoked.
StatusComplete == Dict(<< <<"order_status", Str("complete")>>, <<"groww_order_id", Str("gid-1")>> >>)
StatusPending == Dict(<< <<"data", Dict(<< <<"status", Str("pending")>> >>)>> >>)
StatusMissing == Dict(<< <<"ok", Str("True")>>, <<"status", Str("")>> >>)

StatusRejected == Dict(<< <<"order_status", Str("rejected")>> >>)
StatusCancelled == Dict(<< <<"status", Str("cancelled")>> >>)

StatusBehaviours == {Raises, Returns(StatusComplete), Returns(StatusPending), Returns(StatusMissing)}

\* Rows the broker can be asked about: they carry a broker order id and are not final.
Pollable(j) ==
    {i \in 1..Len(j) : j[i].broker_order_id # "" /\ j[i].status \notin FINAL_STATES}

\* One iteration of the loop of reconcile_order_statuses, for the row with the given id.
\* st = [journal, queried, updated_rows]; answer is what the broker does when asked.
ReconcileRow(st, id, answer, at) ==
    LET row == st.journal[id]
        asked == [st EXCEPT !.queried = Append(@, id)]
        broker_status == ExtractBrokerStatus(answer.response)
        normalized == Upper(broker_status)
    IN  IF row.broker_order_id = "" THEN st
        ELSE IF answer.raises THEN asked
        ELSE IF broker_status = "" THEN asked
        ELSE [asked EXCEPT
                !.journal = UpdateOrder(@, row.id, normalized, "reconciled",
                                        IF answer.response.t = "dict" THEN answer.response
                                        ELSE Dict(<<>>), at),
                !.updated_rows =
                    IF UpdatePersisted(st.journal, row.id)
                    THEN Append(@, [journal_id |-> row.id,
                                    broker_order_id |-> row.broker_order_id,
                                    status |-> normalized,
                                    terminal |-> normalized \in FINAL_STATES])
                    ELSE @]

\* Variant: the loop ends at the first lookup that raises.
RECURSIVE ReconcileRowsStopsOnError(_, _, _, _)
ReconcileRowsStopsOnError(st, rows, answers, at) ==
    IF rows = <<>> THEN st
    ELSE IF Head(rows) \in DOMAIN answers /\ answers[Head(rows)].raises
    THEN ReconcileRow(st, Head(rows), answers[Head(rows)], at)
    ELSE ReconcileRowsStopsOnError(
             ReconcileRow(st, Head(rows),
                          IF Head(rows) \in DOMAIN answers THEN answers[Head(rows)]
                          ELSE NotInvoked, at),
             Tail(rows), answers, at)

RECURSIVE ReconcileRows(_, _, _, _)
ReconcileRows(st, rows, answers, at) ==
    IF rows = <<>> THEN st
    ELSE ReconcileRows(ReconcileRow(st, Head(rows),
                                    IF Head(rows) \in DOMAIN answers THEN answers[Head(rows)]
                                    ELSE NotInvoked, at),
                       Tail(rows), answers, at)

\* reconcile_order_statuses; answers[i] is what the broker does when asked about row i.
ReconcileOrderStatuses(answers) ==
    LET rows == GetOpenLiveOrders(journal, ReconcileLimit)
        active == mode = "live" /\ broker
        st == IF active
              THEN ReconcileRows([journal |-> journal, queried |-> <<>>, updated_rows |-> <<>>],
                                 rows, answers, now)
              ELSE [journal |-> journal, queried |-> <<>>, updated_rows |-> <<>>]
        ret == [checked |-> IF active THEN Len(rows) ELSE 0,
                updated |-> Len(st.updated_rows),
                rows |-> st.updated_rows]
    IN  /\ journal' = st.journal
        /\ status_calls' = status_calls \o [k \in 1..Len(st.queried) |->
                                [order_id |-> journal[st.queried[k]].broker_order_id,
                                 journal_id |-> st.queried[k]]]
        /\ result' = ret
        /\ recon' = Append(recon, [mode |-> mode, broker |-> broker, before |-> journal,
                                   after |-> st.journal, answers |-> answers,
                                   queried |-> st.queried, result |-> ret])
        /\ UNCHANGED <<mode, broker, risk_engine, config, now, last_order_at, orders_today,
                       orders_day, place_calls, calls, ticks,
                   guard, others>>

(***************************************************************************)
(* The router in every setup and mode: orders are routed and the mode is   *)
(* switched, at one instant.                                               *)
(***************************************************************************)
RouteAny ==
    /\ Len(calls) < MaxCalls
    /\ \E o \in Intents, behaviour \in PlaceBehaviours :
            RouteOrder(o.symbol, o.side, o.quantity, o.price, o.is_exit, behaviour)

SwitchMode == \E m \in SetModeArgs : SetMode(m) /\ mode' # mode

Next == RouteAny \/ SwitchMode

Spec == Init /\ [][Next]_vars

(***************************************************************************)
(* The daily counter: a router with a risk engine, while time passes over  *)
(* midnight UTC.                                                           *)
(***************************************************************************)
DayIntents == {o \in Intents : o.symbol = "TCS.NS" /\ o.side = "buy"} \cup
              {o \in Intents : o.symbol = "INFY"}

InitDay ==
    /\ Init
    /\ mode \in {"paper", "live"}
    /\ risk_engine /\ ~config.kill_switch_enabled /\ ~config.market_hours_only

RouteDay ==
    /\ Len(calls) < MaxCalls
    /\ \E o \in DayIntents, behaviour \in PlaceBehaviours :
            RouteOrder(o.symbol, o.side, o.quantity, o.price, o.is_exit, behaviour)

Clock == ticks < MaxTicks /\ \E d \in TickSteps : Tick(d)

NextDay == RouteDay \/ Clock \/ ReadOrdersToday \/ SwitchMode

SpecDay == InitDay /\ [][NextDay]_vars

(***************************************************************************)
(* The dedup window: one paper router without risk engine.                 *)
(***************************************************************************)
DedupIntents == {o \in Intents : o.quantity = 1}

InitDedup ==
    /\ Init
    /\ mode = "paper" /\ broker /\ ~risk_engine

RouteDedup ==
    /\ Len(calls) < MaxDedupCalls
    /\ \E o \in DedupIntents :
            RouteOrder(o.symbol, o.side, o.quantity, o.price, o.is_exit, Raises)

ClockDedup == ticks < MaxDedupTicks /\ \E d \in TickSteps : Tick(d)

NextDedup == RouteDedup \/ ClockDedup

SpecDedup == InitDedup /\ [][NextDedup]_vars

(***************************************************************************)
(* Reconciliation: a live router with a broker.                            *)
(***************************************************************************)
ReconIntents == {o \in Intents : o.quantity = 1 /\ o.side = "buy" /\ ~o.is_exit}

InitRecon ==
    /\ Init
    /\ mode = "live" /\ broker /\ risk_engine /\ config = RiskConfig(FALSE, FALSE, 2)

RouteRecon ==
    /\ Len(calls) < MaxReconCalls
    /\ \E o \in ReconIntents, behaviour \in PlaceBehaviours \ {Raises} :
            RouteOrder(o.symbol, o.side, o.quantity, o.price, o.is_exit, behaviour)

Reconcile ==
    /\ Len(recon) < MaxReconciles
    /\ \E answers \in [Pollable(journal) -> StatusBehaviours] : ReconcileOrderStatuses(answers)

NextRecon == RouteRecon \/ Reconcile \/ SwitchMode

SpecRecon == InitRecon /\ [][NextRecon]_vars

(***************************************************************************)
(* RiskEngine.pre_order_guard called directly, on arguments drawn from     *)
(* bounded sets.                                                           *)
(***************************************************************************)
GuardModes == {"paper", "live", "sim"}

\* Mon 03:44:59, Mon 03:45:00, Mon 10:00:00, Mon 10:00:01, Sat 04:00:00 and Mon 23:59:50 UTC.
GuardTimes == {13499, 13500, 36000, 36001, 5 * SecondsPerDay + 14400, StartTime}

GuardArgs ==
    [cfg : [kill_switch_enabled : BOOLEAN, market_hours_only : BOOLEAN,
            max_orders_per_day : 0..MaxGuardLimit],
     mode : GuardModes,
     orders_today : 0..MaxOrdersToday,
     is_exit : BOOLEAN,
     now_utc : GuardTimes]

InitGuard ==
    /\ InitRouter
    /\ mode = "paper" /\ broker /\ ~risk_engine
    /\ guard \in GuardArgs
    /\ OthersIdle

CallPreOrderGuard ==
    /\ "ret" \notin DOMAIN guard
    /\ guard' = With(guard, [ret |-> PreOrderGuard(guard.cfg, guard.mode, guard.orders_today,
                                                    guard.is_exit, guard.now_utc)])
    /\ UNCHANGED <<mode, broker, risk_engine, config, now, last_order_at, orders_today,
                   orders_day, journal, place_calls, status_calls, result, calls, recon, ticks,
                   others>>

NextGuard == CallPreOrderGuard

SpecGuard == InitGuard /\ [][NextGuard]_vars

(***************************************************************************)
(* The journal called directly, next to a live router that routes and      *)
(* reconciles through it.                                                  *)
(***************************************************************************)
\* Arguments of record_order; the first is the order of the journal's own test.
JournalOrders ==
    {[symbol |-> "TCS.NS", side |-> "BUY", quantity |-> 10, price |-> 100000, mode |-> "live",
      status |-> "SENT", broker_order_id |-> "abc-123", is_exit |-> FALSE],
     [symbol |-> "tcs.ns", side |-> "sell", quantity |-> 10, price |-> 100000, mode |-> "LIVE",
      status |-> "open", broker_order_id |-> "", is_exit |-> TRUE],
     [symbol |-> "INFY", side |-> "BUY", quantity |-> 1, price |-> 100126, mode |-> "paper",
      status |-> "SENT", broker_order_id |-> "", is_exit |-> FALSE]}

\* Arguments of update_order; the first is the update of the journal's own test.
JournalUpdates ==
    {[status |-> "COMPLETE", reason |-> "filled"],
     [status |-> "pending", reason |-> ""]}

JournalLimits == {1, ReconcileLimit}

JRecordOrder(o) ==
    LET j == RecordOrder(journal, o.symbol, o.side, o.quantity, o.price, o.mode, o.status, "",
                         o.broker_order_id, None, o.is_exit, now)
    IN  /\ journal' = j
        /\ jcalls' = Append(jcalls, [op |-> "record_order", args |-> o, before |-> journal,
                                     after |-> j, returned |-> Len(j)])
        /\ UNCHANGED <<mode, broker, risk_engine, config, now, last_order_at, orders_today,
                       orders_day, place_calls, status_calls, result, calls, recon, ticks,
                       guard, calc, event_bus, storeVars, consoleVars>>

JUpdateOrder(journal_id, u) ==
    LET j == UpdateOrder(journal, journal_id, u.status, u.reason, None, now)
    IN  /\ journal' = j
        /\ jcalls' = Append(jcalls, [op |-> "update_order",
                                     args |-> [journal_id |-> journal_id, status |-> u.status,
                                               reason |-> u.reason],
                                     before |-> journal, after |-> j,
                                     returned |-> UpdatePersisted(journal, journal_id)])
        /\ UNCHANGED <<mode, broker, risk_engine, config, now, last_order_at, orders_today,
                       orders_day, place_calls, status_calls, result, calls, recon, ticks,
                       guard, calc, event_bus, storeVars, consoleVars>>

JGetOpenLiveOrders(limit) ==
    LET ids == GetOpenLiveOrders(journal, limit)
    IN  /\ jcalls' = Append(jcalls, [op |-> "get_open_live_orders", args |-> [limit |-> limit],
                                     before |-> journal, after |-> journal,
                                     returned |-> [k \in 1..Len(ids) |-> OpenLiveRow(journal[ids[k]])]])
        /\ UNCHANGED <<routerVars, guard, calc, event_bus, storeVars, consoleVars>>

InitJournal ==
    /\ Init
    /\ mode = "live" /\ broker /\ risk_engine /\ config = RiskConfig(FALSE, FALSE, 2)

JournalRecord == Len(jcalls) < MaxJournalCalls /\ \E o \in JournalOrders : JRecordOrder(o)

JournalUpdate ==
    /\ Len(jcalls) < MaxJournalCalls
    /\ \E journal_id \in 1..(Len(journal) + 1), u \in JournalUpdates :
            JUpdateOrder(journal_id, u)

JournalQuery ==
    /\ Len(jcalls) < MaxJournalCalls
    /\ \E limit \in JournalLimits : JGetOpenLiveOrders(limit)

NextJournal == JournalRecord \/ JournalUpdate \/ JournalQuery

SpecJournal == InitJournal /\ [][NextJournal]_vars

(***************************************************************************)
(* Rows written by the router, then revised by update_order and by         *)
(* reconciliation.                                                         *)
(***************************************************************************)
FrameOps == Len(calls) + Len(jcalls) + Len(recon)

FrameRoute ==
    /\ FrameOps < MaxFrameCalls
    /\ \E o \in ReconIntents, behaviour \in {Raises, Returns(RespFlatId)} :
            RouteOrder(o.symbol, o.side, o.quantity, o.price, o.is_exit, behaviour)

FrameUpdate ==
    /\ FrameOps < MaxFrameCalls
    /\ \E journal_id \in 0..(Len(journal) + 1), u \in JournalUpdates :
            JUpdateOrder(journal_id, u)

FrameReconcile ==
    /\ FrameOps < MaxFrameCalls
    /\ \E answers \in [Pollable(journal) -> StatusBehaviours \ {Returns(StatusMissing)}] :
            ReconcileOrderStatuses(answers)

NextFrame == FrameRoute \/ FrameUpdate \/ FrameReconcile

SpecFrame == InitJournal /\ [][NextFrame]_vars

(***************************************************************************)
(* SessionStateStore: save_state and load_state step by step, as two       *)
(* processes on one state directory; the saving process may die anywhere.  *)
(***************************************************************************)
\* Consoles whose snapshots are saved.
SessionConsoles ==
    {[cash |-> 100000000, realized_pnl |-> 0, positions |-> <<>>, event_log |-> <<>>,
      equity_history |-> <<>>, runtime_watchlist |-> <<"TCS.NS">>, mode |-> "paper",
      config |-> RiskConfig(FALSE, TRUE, 40)],
     [cash |-> 94993700, realized_pnl |-> -100000,
      positions |-> ("TCS.NS" :> PositionState("TCS.NS", 50, Rat(100126, 1), "LONG", StartTime)),
      event_log |-> <<"TCS.NS: BUY 50 @ 100.13 [SENT]">>, equity_history |-> <<100000000>>,
      runtime_watchlist |-> <<"TCS.NS", "INFY">>, mode |-> "live",
      config |-> [RiskConfig(TRUE, FALSE, 5) EXCEPT !.initial_capital = 200000000,
                                                    !.stop_loss_pct = 150,
                                                    !.sell_enabled = FALSE]],
     [cash |-> 100301000, realized_pnl |-> 25000,
      positions |-> ("TCS.NS" :> PositionState("TCS.NS", 1, Rat(100000, 1), "LONG", StartTime)) @@
                    ("INFY" :> PositionState("INFY", 3, Rat(301001, 3), "SHORT", StartTime + 10)),
      event_log |-> <<>>, equity_history |-> <<100000000, 100025000>>,
      runtime_watchlist |-> <<"INFY">>, mode |-> "paper",
      config |-> RiskConfig(FALSE, FALSE, 1)]}

SessionDocs == {SerializeState(c, c.runtime_watchlist) : c \in SessionConsoles}

StoreDocs == {d \in SessionDocs : d.positions # <<>>}

\* The document linked at state_file, None when the path does not exist.
StateDoc == IF state_file = 0 THEN None ELSE inodes[state_file].doc

\* save_state up to mkstemp: the temp file exists and is empty.
SaveBegin(state) ==
    /\ saver.pc = "idle"
    /\ inodes' = Append(inodes, [doc |-> Stamped(state, now), written |-> 0])
    /\ temp_files' = temp_files \cup {Len(inodes) + 1}
    /\ saver' = [pc |-> "dump", state |-> Stamped(state, now), temp |-> Len(inodes) + 1,
                  prev |-> StateDoc, ret |-> "none"]
    /\ UNCHANGED <<routerVars, guard, calc, event_bus, journalVars, consoleVars, state_file, reader, loads>>

\* json.dump writes one more piece of the document to the temp file.
SaveWrite ==
    /\ saver.pc = "dump"
    /\ ~Complete(inodes[saver.temp])
    /\ inodes' = [inodes EXCEPT ![saver.temp].written = @ + 1]
    /\ UNCHANGED <<routerVars, guard, calc, event_bus, journalVars, consoleVars, state_file, temp_files, saver, reader, loads>>

\* json.dump or the write raises: control passes to the finally block.
SaveDumpRaises ==
    /\ saver.pc = "dump"
    /\ ~Complete(inodes[saver.temp])
    /\ saver' = [saver EXCEPT !.pc = "failed"]
    /\ UNCHANGED <<routerVars, guard, calc, event_bus, journalVars, consoleVars, inodes, state_file, temp_files, reader, loads>>

\* os.replace(temp_path, state_file)
SaveReplace ==
    /\ saver.pc = "dump"
    /\ ReplaceReady(inodes[saver.temp])
    /\ state_file' = saver.temp
    /\ temp_files' = temp_files \ {saver.temp}
    /\ saver' = [saver EXCEPT !.pc = "replaced"]
    /\ UNCHANGED <<routerVars, guard, calc, event_bus, journalVars, consoleVars, inodes, reader, loads>>

\* The finally block, and the return.
SaveFinally ==
    /\ saver.pc \in {"replaced", "failed"}
    /\ temp_files' = temp_files \ {saver.temp}
    /\ saver' = [saver EXCEPT !.pc = "idle", !.ret = IF saver.pc = "replaced" THEN "True" ELSE "False"]
    /\ UNCHANGED <<routerVars, guard, calc, event_bus, journalVars, consoleVars, inodes, state_file, reader, loads>>

\* The saving process dies; a later save_state runs in a new process.
SaveCrash ==
    /\ saver.pc # "idle"
    /\ saver' = [saver EXCEPT !.pc = "idle", !.ret = "crashed"]
    /\ UNCHANGED <<routerVars, guard, calc, event_bus, journalVars, consoleVars, inodes, state_file, temp_files, reader, loads>>

\* load_state: os.path.exists(state_file)
LoadExists ==
    /\ reader.pc = "idle"
    /\ IF state_file = 0
       THEN /\ loads' = Append(loads, [read |-> None, ret |-> None, file |-> state_file])
            /\ UNCHANGED reader
       ELSE /\ reader' = [reader EXCEPT !.pc = "exists"]
            /\ UNCHANGED loads
    /\ UNCHANGED <<routerVars, guard, calc, event_bus, journalVars, consoleVars, inodes, state_file, temp_files, saver>>

\* load_state: open(state_file); a path removed in between makes open raise.
LoadOpen ==
    /\ reader.pc = "exists"
    /\ IF state_file = 0
       THEN /\ loads' = Append(loads, [read |-> None, ret |-> None, file |-> state_file])
            /\ reader' = ReaderIdle
       ELSE /\ reader' = [pc |-> "open", handle |-> state_file]
            /\ UNCHANGED loads
    /\ UNCHANGED <<routerVars, guard, calc, event_bus, journalVars, consoleVars, inodes, state_file, temp_files, saver>>

\* load_state: json.load(handle), and the return.
LoadRead ==
    /\ reader.pc = "open"
    /\ loads' = Append(loads, [read |-> inodes[reader.handle],
                               ret |-> JsonLoad(inodes[reader.handle]),
                               file |-> reader.handle])
    /\ reader' = ReaderIdle
    /\ UNCHANGED <<routerVars, guard, calc, event_bus, journalVars, consoleVars, inodes, state_file, temp_files, saver>>

\* clear_state
ClearState ==
    /\ state_file # 0
    /\ state_file' = 0
    /\ UNCHANGED <<routerVars, guard, calc, event_bus, journalVars, consoleVars, inodes, temp_files, saver, reader, loads>>

InitStore ==
    /\ Init
    /\ mode = "paper" /\ broker /\ ~risk_engine

StoreSave == Len(inodes) < MaxSaves /\ \E d \in StoreDocs : SaveBegin(d)

StoreLoad == Len(loads) < MaxLoads /\ LoadExists

NextStore ==
    \/ StoreSave \/ SaveWrite \/ SaveDumpRaises \/ SaveReplace \/ SaveFinally \/ SaveCrash
    \/ StoreLoad \/ LoadOpen \/ LoadRead \/ ClearState

SpecStore == InitStore /\ [][NextStore]_vars

(***************************************************************************)
(* The console and its session snapshot: consoles are constructed, started,*)
(* saved and restored, over one session-state file.                        *)
(***************************************************************************)
Console ==
    [cash |-> cash, realized_pnl |-> realized_pnl, positions |-> positions,
     event_log |-> event_log, equity_history |-> equity_history,
     runtime_watchlist |-> runtime_watchlist, mode |-> mode, config |-> config]

\* Variant: the lists are joined as they are.
UniqueKeepsAll(seq) == seq

\* list(dict.fromkeys(seq))
RECURSIVE Unique(_)
Unique(seq) ==
    IF seq = <<>> THEN <<>>
    ELSE LET front == Unique(SubSeq(seq, 1, Len(seq) - 1))
             last == seq[Len(seq)]
         IN  IF \E k \in 1..Len(front) : front[k] = last THEN front ELSE Append(front, last)

\* load_state as one step.
LoadState == IF state_file = 0 THEN None ELSE JsonLoad(inodes[state_file])

IsFresh == session # <<>> /\ session[Len(session)].op = "new"

\* LiveTradingConsole.__init__ in a new process; the journal and the files stay.
NewConsole(initial_capital, kill, hours, max_orders) ==
    /\ mode' = "paper"
    /\ config' = [RiskConfig(kill, hours, max_orders) EXCEPT !.initial_capital = initial_capital]
    /\ last_order_at' = Empty /\ orders_today' = 0 /\ orders_day' = UtcDate(now)
    /\ result' = Empty
    /\ cash' = initial_capital /\ realized_pnl' = 0 /\ positions' = <<>>
    /\ event_log' = <<>> /\ equity_history' = <<>> /\ runtime_watchlist' = <<>>
    /\ signal_triggers' = <<>> /\ symbol_controls' = <<>>
    /\ session' = Append(session, [op |-> "new"])
    /\ UNCHANGED <<broker, risk_engine, now, journal, place_calls, status_calls, calls, recon,
                   ticks, guard, calc, event_bus, journalVars, storeVars>>

\* save_runtime_state(): save_state as one step; saved tells whether nothing raised.
SaveRuntimeState(saved) ==
    LET doc == Stamped(SerializeState(Console, runtime_watchlist), now)
        file == Len(inodes) + 1
    IN  /\ saver.pc = "idle" /\ reader.pc = "idle"
        /\ inodes' = IF saved THEN Append(inodes, [doc |-> doc, written |-> Chunks]) ELSE inodes
        /\ state_file' = IF saved THEN file ELSE state_file
        /\ saver' = [pc |-> "idle", state |-> doc, temp |-> IF saved THEN file ELSE 0,
                      prev |-> StateDoc, ret |-> IF saved THEN "True" ELSE "False"]
        /\ session' = Append(session, [op |-> "save", console |-> Console,
                                       file |-> IF saved THEN file ELSE 0, ret |-> saved])
        /\ UNCHANGED <<routerVars, guard, calc, event_bus, journalVars, temp_files, reader, loads, cash,
                       realized_pnl, positions, event_log, equity_history, runtime_watchlist,
                       signal_triggers, symbol_controls>>

\* try_restore_saved_state()
TryRestoreSavedState ==
    LET loaded == LoadState
        restored == loaded # None
        c == IF restored THEN RestoreState(Console, loaded) ELSE Console
    IN  /\ saver.pc = "idle" /\ reader.pc = "idle"
        /\ loads' = Append(loads, [read |-> IF state_file = 0 THEN None ELSE inodes[state_file],
                                   ret |-> loaded, file |-> state_file])
        /\ cash' = c.cash /\ realized_pnl' = c.realized_pnl /\ positions' = c.positions
        /\ event_log' = c.event_log /\ equity_history' = c.equity_history
        /\ runtime_watchlist' = c.runtime_watchlist /\ config' = c.config
        /\ session' = Append(session, [op |-> "restore", file |-> state_file, fresh |-> IsFresh,
                                       before |-> Console, after |-> c, ret |-> restored])
        /\ UNCHANGED <<mode, broker, risk_engine, now, last_order_at, orders_today, orders_day,
                       journal, place_calls, status_calls, result, calls, recon, ticks, guard, calc, event_bus,
                       journalVars, inodes, state_file, temp_files, saver, reader,
                       signal_triggers, symbol_controls>>

\* run() up to the start of its loop; when no symbol is left after the snapshot was read
\* and the mode was set, run raises ValueError and nothing more is done.
RunStart(symbols, execution_mode, resume_session) ==
    LET given == RestoreWatchlist(symbols)
        loaded == IF resume_session THEN LoadState ELSE None
        restored == loaded # None
        started == [Console EXCEPT !.runtime_watchlist = given]
        c == IF restored THEN RestoreState(started, loaded) ELSE started
        resumed == IF restored
                   THEN [c EXCEPT !.event_log = LogEvent(@, "Auto-resume enabled: previous state loaded.")]
                   ELSE c
        watch == IF restored /\ c.runtime_watchlist # <<>>
                 THEN Unique(given \o c.runtime_watchlist) ELSE given
        selected == Lower(IF execution_mode = "" THEN "paper" ELSE execution_mode)
        m == IF selected \in {"paper", "live"} THEN selected ELSE "paper"
        rejected == watch = <<>>
    IN  /\ saver.pc = "idle" /\ reader.pc = "idle"
        /\ loads' = IF resume_session
                    THEN Append(loads, [read |-> IF state_file = 0 THEN None ELSE inodes[state_file],
                                        ret |-> loaded, file |-> state_file])
                    ELSE loads
        /\ mode' = m
        /\ cash' = resumed.cash /\ realized_pnl' = resumed.realized_pnl
        /\ positions' = resumed.positions
        /\ event_log' = IF rejected THEN resumed.event_log
                         ELSE LogEvent(resumed.event_log, <<"Started console in mode", Upper(m)>>)
        /\ equity_history' = resumed.equity_history
        /\ runtime_watchlist' = resumed.runtime_watchlist /\ config' = resumed.config
        /\ signal_triggers' = IF rejected THEN signal_triggers ELSE <<>>
        /\ session' = Append(session, [op |-> "run", file |-> IF resume_session THEN state_file ELSE 0,
                                       fresh |-> IsFresh, before |-> Console,
                                       after |-> [resumed EXCEPT !.mode = m], symbols |-> watch,
                                       ret |-> restored,
                                       args |-> [symbols |-> symbols, execution_mode |-> execution_mode,
                                                 resume_session |-> resume_session],
                                       loaded |-> loaded, raised |-> rejected, running |-> ~rejected])
        /\ UNCHANGED <<broker, risk_engine, now, last_order_at, orders_today, orders_day,
                       journal, place_calls, status_calls, result, calls, recon, ticks, guard, calc, event_bus,
                       journalVars, inodes, state_file, temp_files, saver, reader,
                       symbol_controls>>

\* The session-state file is damaged from outside: what is left does not parse.
CorruptStateFile ==
    /\ state_file # 0 /\ Complete(inodes[state_file])
    /\ saver.pc = "idle" /\ reader.pc = "idle"
    /\ inodes' = [inodes EXCEPT ![state_file].written = 1]
    /\ UNCHANGED <<routerVars, guard, calc, event_bus, journalVars, consoleVars, state_file, temp_files, saver,
                   reader, loads>>

InitSession ==
    /\ RouterFresh /\ broker = TRUE /\ risk_engine = TRUE /\ guard = Empty
    /\ JournalIdle /\ StoreIdle /\ CalcIdle /\ BusIdle
    /\ \E c \in SessionConsoles :
          /\ mode = c.mode /\ config = c.config
          /\ cash = c.cash /\ realized_pnl = c.realized_pnl /\ positions = c.positions
          /\ event_log = c.event_log /\ equity_history = c.equity_history
          /\ runtime_watchlist = c.runtime_watchlist
    /\ signal_triggers = <<>> /\ symbol_controls = <<>> /\ session = <<>>

SessionNew ==
    /\ Len(session) < MaxSessionOps /\ ~IsFresh
    /\ \E capital \in {100000000, 50000000} : NewConsole(capital, FALSE, TRUE, 40)

SessionSave == Len(session) < MaxSessionOps /\ \E saved \in BOOLEAN : SaveRuntimeState(saved)

SessionRestore == Len(session) < MaxSessionOps /\ TryRestoreSavedState

SessionRun ==
    /\ Len(session) < MaxSessionOps
    /\ \E execution_mode \in {"paper", "LIVE"}, resume_session \in BOOLEAN :
            RunStart(<<"infy", " ">>, execution_mode, resume_session)

NextSession ==
    SessionNew \/ SessionSave \/ SessionRestore \/ SessionRun \/ CorruptStateFile \/ ClearState

SpecSession == InitSession /\ [][NextSession]_vars

(***************************************************************************)
(* Direct calls of the pure functions of the engine.  The arguments are    *)
(* drawn in the initial state and the call is one step.                    *)
(***************************************************************************)
\* Everything but the call is as constructed and stays so.
CalcHome ==
    /\ InitRouter
    /\ mode = "paper" /\ broker /\ ~risk_engine
    /\ guard = Empty /\ JournalIdle /\ StoreIdle /\ ConsoleIdle /\ BusIdle

Call(fn, args) == [fn |-> fn, args |-> args, done |-> FALSE]

Return(ret) ==
    /\ ~calc.done
    /\ calc' = [fn |-> calc.fn, args |-> calc.args, done |-> TRUE, ret |-> ret]
    /\ UNCHANGED <<routerVars, guard, journalVars, storeVars, consoleVars, event_bus>>

\* PositionSizer.calculate_quantity(cash, price, risk_per_trade_pct, stop_loss_pct,
\* max_position_pct, capital_base): capital 1000, 2000, 0 and -1000; prices 1, 3.333, 10
\* and 30, zero and negative; percentages at, below and above their floors.
SizerArgs ==
    [cash : {-1000, 0, 50000, 100000, 1000000},
     price : {-10000, 0, 1000, 3333, 10000, 30000},
     risk_per_trade_pct : {0, 5, 10, 100},
     stop_loss_pct : {0, 10, 200},
     max_position_pct : {0, 100, 1000},
     capital_base : {-1000000, 0, 1000000, 2000000}]

InitSizer == CalcHome /\ \E a \in SizerArgs : calc = Call("calculate_quantity", a)

CalculateQuantityCall ==
    /\ calc.fn = "calculate_quantity"
    /\ Return(CalculateQuantity(calc.args.cash, calc.args.price, calc.args.risk_per_trade_pct,
                                calc.args.stop_loss_pct, calc.args.max_position_pct,
                                calc.args.capital_base))

NextSizer == CalculateQuantityCall

SpecSizer == InitSizer /\ [][NextSizer]_vars

\* check_exit(entry_price, current_price) and check_exit_short under a config with the given
\* stop-loss and take-profit %: entries 100, 10 and 2.5, zero and negative; current prices
\* at, just inside and just outside the 1%, 2% and 4% moves.
ExitEntries == {-10000, 0, 2500, 10000, 100000}
ExitPrices ==
    {0, 2400, 2450, 2500, 2550, 2600, 9600, 9790, 9800, 9810, 9900, 10000, 10200, 10390,
     10400, 10410, 96000, 97990, 98000, 98010, 100000, 102000, 103990, 104000}
ExitArgs ==
    [entry_price : ExitEntries, current_price : ExitPrices,
     stop_loss_pct : {-200, 0, 100, 200}, take_profit_pct : {-400, 0, 200, 400}]

\* The config of the engine of an exit check.
ExitConfig(a) ==
    [RiskConfig(FALSE, TRUE, 40) EXCEPT !.stop_loss_pct = a.stop_loss_pct,
                                        !.take_profit_pct = a.take_profit_pct]

InitExit ==
    /\ CalcHome
    /\ \E fn \in {"check_exit", "check_exit_short"}, a \in ExitArgs : calc = Call(fn, a)

CheckExitCall ==
    /\ calc.fn = "check_exit"
    /\ Return(CheckExit(ExitConfig(calc.args), Rat(calc.args.entry_price, 1),
                        calc.args.current_price))

CheckExitShortCall ==
    /\ calc.fn = "check_exit_short"
    /\ Return(CheckExitShort(ExitConfig(calc.args), Rat(calc.args.entry_price, 1),
                             calc.args.current_price))

NextExit == CheckExitCall \/ CheckExitShortCall

SpecExit == InitExit /\ [][NextExit]_vars

\* can_open_position(cash, current_exposure, entry_price, quantity) under a config with
\* initial capital 1000 and the given max-position %: prices 1 and 10, quantities around
\* the limits, exposure that leaves room or not.
OpenArgs ==
    [cash : {0, 50000, 100000, 1000000},
     current_exposure : {0, 900000, 950000, 1000000},
     entry_price : {1000, 10000},
     quantity : {-1, 0, 1, 5, 6, 10, 11, 20},
     max_position_pct : {100, 560, 1000, 2000}]

\* The config of the engine of a can_open_position call.
OpenConfig(a) ==
    [RiskConfig(FALSE, TRUE, 40) EXCEPT !.initial_capital = 1000000,
                                        !.max_position_pct = a.max_position_pct]

InitOpen == CalcHome /\ \E a \in OpenArgs : calc = Call("can_open_position", a)

CanOpenPositionCall ==
    /\ calc.fn = "can_open_position"
    /\ Return(CanOpenPosition(OpenConfig(calc.args), calc.args.cash, calc.args.current_exposure,
                              calc.args.entry_price, calc.args.quantity))

NextOpen == CanOpenPositionCall

SpecOpen == InitOpen /\ [][NextOpen]_vars

(***************************************************************************)
(* The console trading: cycles of the run loop and manual orders, on a     *)
(* console with initial capital 1000 and a watchlist of two symbols.       *)
(***************************************************************************)
RouterState ==
    [last_order_at |-> last_order_at, orders_today |-> orders_today, orders_day |-> orders_day,
     journal |-> journal, place_calls |-> place_calls, result |-> result, calls |-> calls]

ConsoleState ==
    [cash |-> cash, realized_pnl |-> realized_pnl, positions |-> positions,
     event_log |-> event_log, signal_triggers |-> signal_triggers, router |-> RouterState]

Env(behaviour) ==
    [mode |-> mode, broker |-> broker, risk_engine |-> risk_engine, config |-> config,
     now |-> now, symbol_controls |-> symbol_controls, behaviour |-> behaviour]

\* The console and its router become c; op is the record of the operation.
Commit(c, behaviour, op) ==
    /\ (Len(c.router.place_calls) = Len(place_calls) => behaviour = Raises)
    /\ cash' = c.cash
    /\ realized_pnl' = c.realized_pnl
    /\ positions' = c.positions
    /\ event_log' = c.event_log
    /\ signal_triggers' = c.signal_triggers
    /\ last_order_at' = c.router.last_order_at
    /\ orders_today' = c.router.orders_today
    /\ orders_day' = c.router.orders_day
    /\ journal' = c.router.journal
    /\ place_calls' = c.router.place_calls
    /\ result' = c.router.result
    /\ calls' = c.router.calls
    /\ session' = Append(session, op)
    /\ UNCHANGED <<mode, broker, risk_engine, config, now, status_calls, recon, ticks, guard, calc, event_bus,
                   journalVars, storeVars, equity_history, runtime_watchlist, symbol_controls>>

\* What an operation found: the book, the switches and the length of the histories.
Before ==
    [positions |-> positions, cash |-> cash, realized_pnl |-> realized_pnl,
     config |-> config, symbol_controls |-> symbol_controls,
     calls |-> Len(calls), signal_triggers |-> Len(signal_triggers)]

\* _process_signals(snapshots)
ProcessSignals(snapshots, behaviour) ==
    Commit(ProcessSignalsOn(Env(behaviour), ConsoleState, snapshots), behaviour,
           [op |-> "cycle", snapshots |-> snapshots, before |-> Before])

\* execute_manual_order(symbol, side, quantity, price)
ExecuteManualOrder(symbol, side, quantity, price, behaviour) ==
    LET done == ExecuteManualOrderOn(Env(behaviour), ConsoleState, symbol, side, quantity, price)
    IN  Commit(done.c, behaviour,
               [op |-> "manual", symbol |-> symbol, side |-> side, quantity |-> quantity,
                price |-> price, before |-> Before, ret |-> done.ret])

\* _load_symbol_controls(symbols), where payload is the symbol_controls of the dashboard
\* control file.
LoadSymbolControls(symbols, payload) ==
    /\ symbol_controls' =
            [symbol \in {symbols[i] : i \in 1..Len(symbols)} |->
                [buy |-> Get(Get(payload, symbol, Empty), "buy", TRUE),
                 sell |-> Get(Get(payload, symbol, Empty), "sell", TRUE)]]
    /\ UNCHANGED <<routerVars, guard, calc, event_bus, journalVars, storeVars, cash, realized_pnl, positions,
                   event_log, equity_history, runtime_watchlist, signal_triggers, session>>

TradeCapital == 1000000
TradeSymbols == <<"INFY", "TCS.NS">>

\* The risk config of the console: as constructed with capital 1000, or after /sell off
\* or /buy off.
TradeConfigs ==
    {[RiskConfig(FALSE, FALSE, 40) EXCEPT !.initial_capital = TradeCapital,
                                          !.buy_enabled = sw[1], !.sell_enabled = sw[2]] :
        sw \in {<<TRUE, TRUE>>, <<TRUE, FALSE>>, <<FALSE, TRUE>>}}

InitTrade ==
    /\ mode \in {"paper", "live"}
    /\ broker = TRUE /\ risk_engine = TRUE
    /\ config \in TradeConfigs
    /\ RouterFresh
    /\ guard = Empty /\ JournalIdle /\ StoreIdle /\ CalcIdle /\ BusIdle
    /\ cash = TradeCapital /\ realized_pnl = 0 /\ positions = <<>> /\ event_log = <<>>
    /\ equity_history = <<>> /\ runtime_watchlist = TradeSymbols /\ signal_triggers = <<>>
    /\ symbol_controls = <<>> /\ session = <<>>

\* What the market does to a symbol in a cycle: no price, or a price 5% below, at or 5%
\* above 10, with a sell, no or a buy signal.
Quotes ==
    {[has_price |-> FALSE, price |-> 0, signal |-> 0]} \cup
    [has_price : {TRUE}, price : {9500, 10000, 10500}, signal : {-1, 0, 1}]

Snapshot(symbol, quote) ==
    [symbol |-> symbol, has_price |-> quote.has_price, price |-> quote.price,
     signal |-> quote.signal]

\* The snapshots of a cycle: the second symbol moves with the first, or has no price.
CycleSnapshots ==
    {<<Snapshot(TradeSymbols[1], q), Snapshot(TradeSymbols[2], q)>> : q \in Quotes} \cup
    {<<Snapshot(TradeSymbols[1], q), Snapshot(TradeSymbols[2], [q EXCEPT !.has_price = FALSE])>> :
        q \in Quotes}

BrokerBehaviours == {Raises, Returns(RespFlatId)}

\* A cycle of the run loop, with the controls of the dashboard as they are.
CycleRun ==
    /\ Len(session) < MaxCycleOps
    /\ \E snapshots \in CycleSnapshots, behaviour \in BrokerBehaviours :
            ProcessSignals(snapshots, behaviour)

\* A manual sale far below the market, between two cycles.
CycleOrder ==
    /\ Len(session) < MaxCycleOps
    /\ \E behaviour \in BrokerBehaviours : ExecuteManualOrder("infy", "SELL", 10, 7000, behaviour)

ControlPayloads ==
    {Empty,
     [s \in {"INFY"} |-> [sell |-> FALSE]],
     [s \in {"INFY", "TCS.NS"} |-> [buy |-> FALSE]]}

\* The control file is as the dashboard left it before the session: it is read once.
CycleControls ==
    /\ symbol_controls = <<>>
    /\ \E payload \in ControlPayloads : LoadSymbolControls(TradeSymbols, payload)

InitCycle == InitTrade /\ mode = "paper"

NextCycle == CycleRun \/ CycleOrder \/ CycleControls

SpecCycle == InitCycle /\ [][NextCycle]_vars

\* Manual orders on a console with both sides enabled, in paper and in live mode, between
\* cycles that open and close positions.
ManualOrders ==
    [symbol : {"infy"}, side : {"buy", "SELL"}, quantity : {5, 10, 15}, price : {7000, 10000}]
    \cup {[symbol |-> "infy", side |-> "HOLD", quantity |-> 5, price |-> 10000],
          [symbol |-> "infy", side |-> "buy", quantity |-> 0, price |-> 10000],
          [symbol |-> "infy", side |-> "SELL", quantity |-> 5, price |-> 0]}

\* The manual order books a whole number of thousandths.
WholePnl(symbol, quantity) ==
    IF symbol \notin DOMAIN positions THEN TRUE
    ELSE IF positions[symbol].entry_price.d = 1 THEN TRUE
    ELSE quantity >= positions[symbol].quantity

ManualOrder ==
    /\ Len(session) < MaxManualOps
    /\ \E o \in ManualOrders, behaviour \in BrokerBehaviours :
            /\ WholePnl(Upper(o.symbol), o.quantity)
            /\ ExecuteManualOrder(o.symbol, o.side, o.quantity, o.price, behaviour)

ManualSnapshots ==
    {<<Snapshot(TradeSymbols[1], q), Snapshot(TradeSymbols[2], [q EXCEPT !.has_price = FALSE])>> :
        q \in {[has_price |-> TRUE, price |-> 10000, signal |-> 1],
               [has_price |-> TRUE, price |-> 10000, signal |-> -1],
               [has_price |-> TRUE, price |-> 9500, signal |-> 0]}}

ManualCycle ==
    /\ Len(session) < MaxManualOps
    /\ \E snapshots \in ManualSnapshots, behaviour \in BrokerBehaviours :
            ProcessSignals(snapshots, behaviour)

\* The next operation is past the duplicate window.
ManualClock == ticks < MaxTicks /\ Tick(DuplicateWindow + 1)

InitManual == InitTrade /\ config.buy_enabled /\ config.sell_enabled

NextManual == ManualOrder \/ ManualCycle \/ ManualClock

SpecManual == InitManual /\ [][NextManual]_vars

\* A session that runs into its daily loss limit (3% of 1000): cycles that buy at 10, a
\* fall to 7 that stops a position out, manual sales at 7, and cycles after them.
BreachQuotes ==
    {[has_price |-> TRUE, price |-> 10000, signal |-> 1],
     [has_price |-> TRUE, price |-> 9500, signal |-> 0],
     [has_price |-> TRUE, price |-> 9500, signal |-> -1],
     [has_price |-> TRUE, price |-> 7000, signal |-> 0]}

BreachSnapshots ==
    {<<Snapshot(TradeSymbols[1], q), Snapshot(TradeSymbols[2], q)>> : q \in BreachQuotes} \cup
    {<<Snapshot(TradeSymbols[1], q), Snapshot(TradeSymbols[2], [q EXCEPT !.has_price = FALSE])>> :
        q \in BreachQuotes}

BreachCycle ==
    /\ Len(session) < MaxBreachOps
    /\ \E snapshots \in BreachSnapshots, behaviour \in BrokerBehaviours :
            ProcessSignals(snapshots, behaviour)

BreachOrder ==
    /\ Len(session) < MaxBreachOps
    /\ \E quantity \in {10, 15}, behaviour \in BrokerBehaviours :
            ExecuteManualOrder("infy", "SELL", quantity, 7000, behaviour)

InitBreach == InitTrade /\ mode = "paper" /\ config.buy_enabled /\ config.sell_enabled

NextBreach == BreachCycle \/ BreachOrder

SpecBreach == InitBreach /\ [][NextBreach]_vars

\* A console of capital 100 after /maxpos 100 or /maxpos 60 and /risk 2: one position may
\* take the whole capital, or 60% of it.  In a cycle each symbol has no price (its data could not be
\* fetched), or trades at 10 or at 10.2 with a buy, a sell or no signal.
ExposureConfigs ==
    {[RiskConfig(FALSE, FALSE, 40) EXCEPT !.initial_capital = 100000,
                                          !.risk_per_trade_pct = 200,
                                          !.max_position_pct = maxpos] : maxpos \in {10000, 6000}}

ExposureQuotes ==
    {[has_price |-> FALSE, price |-> 0, signal |-> 0],
     [has_price |-> TRUE, price |-> 10000, signal |-> 1],
     [has_price |-> TRUE, price |-> 10000, signal |-> -1],
     [has_price |-> TRUE, price |-> 10000, signal |-> 0],
     [has_price |-> TRUE, price |-> 10200, signal |-> 0]}

ExposureSnapshots ==
    {<<Snapshot(TradeSymbols[1], q1), Snapshot(TradeSymbols[2], q2)>> :
        q1 \in ExposureQuotes, q2 \in ExposureQuotes}

ExposureCycle ==
    /\ Len(session) < MaxExposureOps
    /\ \E snapshots \in ExposureSnapshots, behaviour \in BrokerBehaviours :
            ProcessSignals(snapshots, behaviour)

InitExposure ==
    /\ mode = "paper"
    /\ broker = TRUE /\ risk_engine = TRUE
    /\ config \in ExposureConfigs
    /\ RouterFresh
    /\ guard = Empty /\ JournalIdle /\ StoreIdle /\ CalcIdle /\ BusIdle
    /\ cash = config.initial_capital /\ realized_pnl = 0 /\ positions = <<>> /\ event_log = <<>>
    /\ equity_history = <<>> /\ runtime_watchlist = TradeSymbols /\ signal_triggers = <<>>
    /\ symbol_controls = <<>> /\ session = <<>>

NextExposure == ExposureCycle

SpecExposure == InitExposure /\ [][NextExposure]_vars

\* _apply_command("/kill on") and _apply_command("/kill off")
KillCommand(enabled) ==
    /\ config' = [config EXCEPT !.kill_switch_enabled = enabled]
    /\ event_log' = LogEvent(event_log, <<IF enabled THEN "Kill switch set to ON."
                                          ELSE "Kill switch set to OFF.">>)
    /\ session' = Append(session, [op |-> "command", key |-> "kill", enabled |-> enabled,
                                   before |-> Before])
    /\ UNCHANGED <<mode, broker, risk_engine, now, last_order_at, orders_today, orders_day,
                   journal, place_calls, status_calls, result, calls, recon, ticks, guard, calc, event_bus,
                   journalVars, storeVars, cash, realized_pnl, positions, equity_history,
                   runtime_watchlist, signal_triggers, symbol_controls>>

\* The operator switches the kill switch between manual orders and cycles, in paper and
\* in live mode.
KillToggle ==
    /\ Len(session) < MaxKillOps
    /\ \E enabled \in BOOLEAN : KillCommand(enabled)

KillOrder ==
    /\ Len(session) < MaxKillOps
    /\ \E side \in {"BUY", "SELL"}, quantity \in {5, 10, 15}, behaviour \in BrokerBehaviours :
            ExecuteManualOrder("infy", side, quantity, 10000, behaviour)

KillCycle ==
    /\ Len(session) < MaxKillOps
    /\ \E signal \in {1, -1}, behaviour \in BrokerBehaviours :
            ProcessSignals(<<Snapshot(TradeSymbols[1],
                                      [has_price |-> TRUE, price |-> 10000, signal |-> signal]),
                             Snapshot(TradeSymbols[2],
                                      [has_price |-> TRUE, price |-> 10000, signal |-> signal])>>,
                           behaviour)

InitKill == InitTrade /\ config.buy_enabled /\ config.sell_enabled

NextKill == KillToggle \/ KillOrder \/ KillCycle

SpecKill == InitKill /\ [][NextKill]_vars

(***************************************************************************)
(* The order of the checks of route_order: routers with a risk engine, in  *)
(* paper and in live mode, with the kill switch, the market-hours guard or *)
(* the daily limit blocking and a broker that fails, while time passes.    *)
(***************************************************************************)
ChecksIntents == {o \in Intents : o.side = "buy"}

InitChecks == Init /\ mode \in {"paper", "live"} /\ risk_engine

RouteChecks ==
    /\ Len(calls) < MaxCalls
    /\ \E o \in ChecksIntents, behaviour \in BrokerBehaviours :
            RouteOrder(o.symbol, o.side, o.quantity, o.price, o.is_exit, behaviour)

NextChecks == RouteChecks \/ Clock

SpecChecks == InitChecks /\ [][NextChecks]_vars

(***************************************************************************)
(* Terminal rows: orders are routed in paper and live mode and reconciled  *)
(* against a broker that answers for every order id it ever issued, also   *)
(* for orders the journal already holds as final.                          *)
(***************************************************************************)
AbsorbOps == Len(calls) + Len(recon)

\* Rows the broker knows: they carry a broker order id.
Issued(j) == {i \in 1..Len(j) : j[i].broker_order_id # ""}

AbsorbRoute ==
    /\ AbsorbOps < MaxAbsorbOps
    /\ \E o \in ReconIntents, behaviour \in {Raises, Returns(RespFlatId)} :
            RouteOrder(o.symbol, o.side, o.quantity, o.price, o.is_exit, behaviour)

AbsorbReconcile ==
    /\ AbsorbOps < MaxAbsorbOps
    /\ \E answers \in [Issued(journal) -> {Raises, Returns(StatusComplete), Returns(StatusPending)}] :
            ReconcileOrderStatuses(answers)

NextAbsorb == AbsorbRoute \/ AbsorbReconcile \/ SwitchMode

SpecAbsorb == InitRecon /\ [][NextAbsorb]_vars

(***************************************************************************)
(* The event bus: callbacks are subscribed to topics and events are        *)
(* published.  A callback returns, or raises when it is called.            *)
(***************************************************************************)
WildcardTopic == "*"
BusTopics == {"alpha", "beta", WildcardTopic}
BusCallbacks == {"listener", "failing"}
BusPayloads == {<< <<"x", 10>> >>}

\* What calling the callback does.
CallbackRaises(callback) == callback = "failing"

\* RuntimeEvent(event_type, dict(payload), utcnow): the event carries its own copy of the
\* payload, a dict with the same items.
RuntimeEvent(event_type, payload, at) ==
    [event_type |-> event_type, payload |-> [k \in DOMAIN payload |-> payload[k]], timestamp |-> at]

\* self._subscribers.get(event_type, [])
SubscribersOf(subscribers, event_type) ==
    IF \E k \in 1..Len(subscribers) : subscribers[k].event_type = event_type
    THEN LET k == CHOOSE k \in 1..Len(subscribers) : subscribers[k].event_type = event_type
         IN  subscribers[k].callbacks
    ELSE <<>>

\* self._subscribers[event_type].append(callback) on the defaultdict: the list of a topic
\* is made at its first subscription; subscribers is the dict in insertion order.
SubscribeTo(subscribers, event_type, callback) ==
    IF \E k \in 1..Len(subscribers) : subscribers[k].event_type = event_type
    THEN [k \in 1..Len(subscribers) |->
            IF subscribers[k].event_type = event_type
            THEN [subscribers[k] EXCEPT !.callbacks = Append(@, callback)]
            ELSE subscribers[k]]
    ELSE Append(subscribers, [event_type |-> event_type, callbacks |-> <<callback>>])

\* for callback in callbacks: callback(event).  st = [invoked, raised]; a callback that
\* raises ends publish.
RECURSIVE Invoke(_, _, _)
Invoke(st, callbacks, event) ==
    IF callbacks = <<>> \/ st.raised THEN st
    ELSE Invoke([invoked |-> Append(st.invoked, [callback |-> Head(callbacks), event |-> event]),
                 raised |-> CallbackRaises(Head(callbacks))],
                Tail(callbacks), event)

\* The calls publish makes, in order, and whether one of them raised.
Published(subscribers, event_type, payload, at) ==
    LET event == RuntimeEvent(event_type, payload, at)
        first == Invoke([invoked |-> <<>>, raised |-> FALSE],
                        SubscribersOf(subscribers, event_type), event)
    IN  Invoke(first, SubscribersOf(subscribers, WildcardTopic), event)

\* EventBus.subscribe
Subscribe(event_type, callback) ==
    /\ event_bus' = [event_bus EXCEPT !.subscribers = SubscribeTo(@, event_type, callback)]
    /\ UNCHANGED <<routerVars, guard, calc, journalVars, storeVars, consoleVars>>

\* EventBus.publish
Publish(event_type, payload) ==
    LET done == Published(event_bus.subscribers, event_type, payload, now)
    IN  /\ event_bus' = [event_bus EXCEPT !.published =
                            Append(@, [event_type |-> event_type, payload |-> payload,
                                       subscribers |-> event_bus.subscribers,
                                       invoked |-> done.invoked, returned |-> ~done.raised])]
        /\ UNCHANGED <<routerVars, guard, calc, journalVars, storeVars, consoleVars>>

\* The number of subscribe calls made so far.
RECURSIVE Subscriptions(_)
Subscriptions(subscribers) ==
    IF subscribers = <<>> THEN 0
    ELSE Len(Head(subscribers).callbacks) + Subscriptions(Tail(subscribers))

BusOps == Len(event_bus.published) + Subscriptions(event_bus.subscribers)

BusSubscribe ==
    /\ BusOps < MaxBusOps
    /\ \E event_type \in BusTopics, callback \in BusCallbacks : Subscribe(event_type, callback)

BusPublish ==
    /\ BusOps < MaxBusOps
    /\ \E event_type \in BusTopics, payload \in BusPayloads : Publish(event_type, payload)

NextBus == BusSubscribe \/ BusPublish

InitBus == Init /\ mode = "paper" /\ broker /\ ~risk_engine

SpecBus == InitBus /\ [][NextBus]_vars

(***************************************************************************)
(* The run loop of the console: run() starts it, each pass runs a cycle or *)
(* applies one operator command, and a command or an exception ends it.    *)
(* The list `symbols` of run() and its flag `running` are kept in the      *)
(* record of the last operation of the session.                            *)
(***************************************************************************)
LoopOp == session[Len(session)]

\* Variant: the loop goes on whatever the command returned.
InLoopWhatever == session # <<>> /\ LoopOp.op \in {"run", "run_cycle", "run_command"}

\* run() is inside its while loop.
InLoop == session # <<>> /\ LoopOp.op \in {"run", "run_cycle", "run_command"} /\ LoopOp.running

\* symbol in symbols
InList(symbols, symbol) == \E k \in 1..Len(symbols) : symbols[k] = symbol

\* symbols.remove(symbol): the first occurrence goes.
RemoveFirst(symbols, symbol) ==
    LET k == CHOOSE k \in 1..Len(symbols) :
                 symbols[k] = symbol /\ \A i \in 1..(k - 1) : symbols[i] # symbol
    IN  SubSeq(symbols, 1, k - 1) \o SubSeq(symbols, k + 1, Len(symbols))

\* The store as save_runtime_state(symbols) leaves it: `symbols or self.runtime_watchlist`
\* is serialized, and save_state returns False when anything raised.
SaveRuntimeStateOn(st, c, symbols, at, saved) ==
    LET doc == Stamped(SerializeState(c, IF symbols # <<>> THEN symbols ELSE c.runtime_watchlist), at)
        file == Len(st.inodes) + 1
        prev == IF st.state_file = 0 THEN None ELSE st.inodes[st.state_file].doc
    IN  [inodes |-> IF saved THEN Append(st.inodes, [doc |-> doc, written |-> Chunks]) ELSE st.inodes,
         state_file |-> IF saved THEN file ELSE st.state_file,
         saver |-> [pc |-> "idle", state |-> doc, temp |-> IF saved THEN file ELSE 0,
                    prev |-> prev, ret |-> IF saved THEN "True" ELSE "False"],
         saves |-> Append(st.saves, saved)]

\* tokens[0].lstrip("/") on the first tokens of the model.
LStripSlash(token) ==
    CASE token = "/" -> ""
      [] token = "/q" -> "q"
      [] token = "/KO" -> "KO"
      [] token = "/kill" -> "kill"
      [] token = "/sl" -> "sl"
      [] token = "/ls" -> "ls"
      [] token = "/tp" -> "tp"
      [] token = "/risk" -> "risk"
      [] token = "/maxpos" -> "maxpos"
      [] token = "/maxorders" -> "maxorders"
      [] token = "/mo" -> "mo"
      [] token = "/buy" -> "buy"
      [] token = "/sell" -> "sell"
      [] token = "/hours" -> "hours"
      [] token = "/mode" -> "mode"
      [] token = "/help" -> "help"
      [] token = "/foo" -> "foo"
      [] OTHER -> token

\* aliases.get(key, key) of _apply_command.
Alias(key) ==
    CASE key = "b" -> "buy"
      [] key = "s" -> "sell"
      [] key = "r" -> "risk"
      [] key = "m" -> "mode"
      [] key = "q" -> "quit"
      [] key = "h" -> "help"
      [] key = "ls" -> "sl"
      [] key = "pt" -> "tp"
      [] key = "mp" -> "maxpos"
      [] key = "ko" -> "kill"
      [] key = "mh" -> "hours"
      [] key = "mo" -> "maxorders"
      [] key = "a" -> "add"
      [] key = "rm" -> "remove"
      [] key = "cs" -> "clearstate"
      [] OTHER -> key

\* float(token) / 100.0 in millionths: [ok, nan, v]; ok is FALSE when float() raises
\* ValueError, nan is TRUE for the token "nan".
ParsePct(token) ==
    CASE token = "0" -> [ok |-> TRUE, nan |-> FALSE, v |-> 0]
      [] token = "-5" -> [ok |-> TRUE, nan |-> FALSE, v |-> -50000]
      [] token = "0.001" -> [ok |-> TRUE, nan |-> FALSE, v |-> 10]
      [] token = "0.1" -> [ok |-> TRUE, nan |-> FALSE, v |-> 1000]
      [] token = "0.5" -> [ok |-> TRUE, nan |-> FALSE, v |-> 5000]
      [] token = "1" -> [ok |-> TRUE, nan |-> FALSE, v |-> 10000]
      [] token = "2" -> [ok |-> TRUE, nan |-> FALSE, v |-> 20000]
      [] token = "100000" -> [ok |-> TRUE, nan |-> FALSE, v |-> 1000000000]
      [] token = "nan" -> [ok |-> TRUE, nan |-> TRUE, v |-> 0]
      [] OTHER -> [ok |-> FALSE, nan |-> FALSE, v |-> 0]

\* int(token): [ok, nan, v]; ok is FALSE when int() raises ValueError.
ParseInt(token) ==
    CASE token = "0" -> [ok |-> TRUE, nan |-> FALSE, v |-> 0]
      [] token = "-5" -> [ok |-> TRUE, nan |-> FALSE, v |-> -5]
      [] token = "1" -> [ok |-> TRUE, nan |-> FALSE, v |-> 1]
      [] token = "2" -> [ok |-> TRUE, nan |-> FALSE, v |-> 2]
      [] token = "100000" -> [ok |-> TRUE, nan |-> FALSE, v |-> 100000]
      [] OTHER -> [ok |-> FALSE, nan |-> FALSE, v |-> 0]

\* Variant: the number is stored as it was typed.
Unfloored(floor, value) == value.v

\* max(floor, value): the second argument is returned only when it compares greater,
\* which a nan never does.
Floored(floor, value) == IF ~value.nan /\ value.v > floor THEN value.v ELSE floor

\* _apply_command(cmd, symbols): [c, symbols, st, running].  cmd.key is the first token
\* of the command and cmd.arg the second ("" when there is none); cleared tells whether
\* clear_state returned True.  Percentages are kept in 1/10000.
ApplyCommand(c, symbols, st, cmd, cleared) ==
    LET same == [c |-> c, symbols |-> symbols, st |-> st, running |-> TRUE]
        key == Alias(Lower(LStripSlash(cmd.key)))
        has_arg == cmd.arg # ""
        selected == Lower(cmd.arg)
        enabled == selected = "on"
        switched == IF enabled THEN "ON" ELSE "OFF"
        symbol == Upper(cmd.arg)
        pct == ParsePct(cmd.arg)
        count == ParseInt(cmd.arg)
        low == Floored(1000, pct) \div 100
        wide == Floored(10000, pct) \div 100
        value == Floored(1, count)
    IN  CASE cmd.key = "" -> same
          [] cmd.key = "/" ->
                [same EXCEPT !.c.event_log = LogEvent(@, <<"Commands: /help, ...">>)]
          [] key = "quit" ->
                [same EXCEPT !.c.event_log = LogEvent(@, <<"Stopping live console.">>),
                             !.running = FALSE]
          [] key = "help" ->
                [same EXCEPT !.c.event_log = LogEvent(@, <<"Use controls: ...">>)]
          [] key = "clearstate" ->
                IF cleared
                THEN [same EXCEPT !.st.state_file = 0,
                                  !.c.event_log = LogEvent(@, <<"Saved session state cleared.">>)]
                ELSE [same EXCEPT !.c.event_log =
                                      LogEvent(@, <<"Failed to clear saved session state.">>)]
          [] key = "buy" /\ has_arg ->
                [same EXCEPT !.c.config.buy_enabled = enabled,
                             !.c.event_log = LogEvent(@, <<"BUY execution set to", switched>>)]
          [] key = "sell" /\ has_arg ->
                [same EXCEPT !.c.config.sell_enabled = enabled,
                             !.c.event_log = LogEvent(@, <<"SELL execution set to", switched>>)]
          [] key \in {"sl", "tp", "risk", "maxpos"} /\ has_arg /\ ~pct.ok ->
                [same EXCEPT !.c.event_log = LogEvent(@, <<"Invalid percentage value.">>)]
          [] key = "sl" /\ has_arg /\ pct.ok ->
                [same EXCEPT !.c.config.stop_loss_pct = low,
                             !.c.event_log = LogEvent(@, <<"Stop-loss updated to", low>>)]
          [] key = "tp" /\ has_arg /\ pct.ok ->
                [same EXCEPT !.c.config.take_profit_pct = low,
                             !.c.event_log = LogEvent(@, <<"Take-profit updated to", low>>)]
          [] key = "risk" /\ has_arg /\ pct.ok ->
                [same EXCEPT !.c.config.risk_per_trade_pct = low,
                             !.c.event_log = LogEvent(@, <<"Risk/trade updated to", low>>)]
          [] key = "maxpos" /\ has_arg /\ pct.ok ->
                [same EXCEPT !.c.config.max_position_pct = wide,
                             !.c.event_log = LogEvent(@, <<"Max position updated to", wide>>)]
          [] key = "kill" /\ has_arg ->
                [same EXCEPT !.c.config.kill_switch_enabled = enabled,
                             !.c.event_log = LogEvent(@, <<IF enabled
                                                           THEN "Kill switch set to ON."
                                                           ELSE "Kill switch set to OFF.">>)]
          [] key = "hours" /\ has_arg ->
                [same EXCEPT !.c.config.market_hours_only = enabled,
                             !.c.event_log = LogEvent(@, <<"Market-hours guard set to", switched>>)]
          [] key = "maxorders" /\ has_arg ->
                IF count.ok
                THEN [same EXCEPT !.c.config.max_orders_per_day = value,
                                  !.c.event_log = LogEvent(@, <<"Max orders/day set to", value>>)]
                ELSE [same EXCEPT !.c.event_log = LogEvent(@, <<"Invalid max orders value.">>)]
          [] key = "mode" /\ has_arg ->
                IF selected \in {"paper", "live"}
                THEN [same EXCEPT !.c.mode = selected,
                                  !.c.event_log = LogEvent(@, <<"Execution mode set to", Upper(selected)>>)]
                ELSE [same EXCEPT !.c.event_log =
                                      LogEvent(@, <<"Invalid mode. Use 'paper' or 'live'.">>)]
          [] key = "add" /\ has_arg ->
                IF InList(symbols, symbol) THEN same
                ELSE [same EXCEPT !.symbols = Append(symbols, symbol),
                                  !.c.event_log = LogEvent(@, <<"Added to watchlist", symbol>>)]
          [] key = "remove" /\ has_arg ->
                IF InList(symbols, symbol)
                THEN [same EXCEPT !.symbols = RemoveFirst(symbols, symbol),
                                  !.c.event_log = LogEvent(@, <<"Removed from watchlist", symbol>>)]
                ELSE same
          [] OTHER ->
                [same EXCEPT !.c.event_log =
                                 LogEvent(@, <<"Unknown command. Type '/' to list commands.">>)]

\* _compute_equity(snapshots): a position is marked at the price of its snapshot, is
\* left out when its snapshot has no price, and is marked at its entry price when the
\* cycle has no snapshot for its symbol.
RECURSIVE ComputeEquity(_, _, _)
ComputeEquity(equity, held, snapshots) ==
    IF held = <<>> THEN equity
    ELSE LET pos == Head(held)
             rows == {i \in 1..Len(snapshots) : snapshots[i].symbol = pos.symbol}
             row == snapshots[CHOOSE i \in rows : \A k \in rows : k <= i]
             value == IF rows = {} THEN (pos.quantity * pos.entry_price.n) \div pos.entry_price.d
                      ELSE IF row.has_price THEN pos.quantity * row.price
                      ELSE 0
         IN  ComputeEquity(IF pos.side = "LONG" THEN equity + value ELSE equity - value,
                           Tail(held), snapshots)

\* The snapshots _build_snapshot makes for the symbols when the market does quote to each.
LoopSnapshots(symbols, quote) == [k \in 1..Len(symbols) |-> Snapshot(symbols[k], quote)]

\* _load_symbol_controls(symbols) when the dashboard has written no control file.
DefaultControls(symbols) ==
    [symbol \in {symbols[i] : i \in 1..Len(symbols)} |-> [buy |-> TRUE, sell |-> TRUE]]

\* The reconciliation of a cycle once _process_signals left the console as c: none in
\* paper mode; the broker gives the same answer for every order it is asked about.
CycleReconciled(e, c, answer) ==
    LET idle == [journal |-> c.router.journal, queried |-> <<>>, updated_rows |-> <<>>]
        rows == GetOpenLiveOrders(c.router.journal, ReconcileLimit)
    IN  IF e.mode = "live" /\ e.broker
        THEN [st |-> ReconcileRows(idle, rows, [i \in 1..Len(c.router.journal) |-> answer], e.now),
              checked |-> Len(rows), ran |-> TRUE, answer |-> answer]
        ELSE [st |-> idle, checked |-> 0, ran |-> e.mode = "live", answer |-> answer]

\* The event log after the reconciliation of a cycle.
ReconciledLog(log, rec) ==
    IF Len(rec.st.updated_rows) > 0
    THEN LogEvent(log, <<"Reconciled live orders", Len(rec.st.updated_rows), rec.checked>>)
    ELSE log

\* Variant: orders the broker turned down are given back to the daily count.
ReconciledGivesBack(c, rec) ==
    [c EXCEPT !.event_log = ReconciledLog(@, rec),
              !.router.orders_today =
                    @ - Cardinality({k \in 1..Len(rec.st.updated_rows) :
                                        rec.st.updated_rows[k].status
                                            \in {"REJECTED", "CANCELLED", "FAILED"}})]

\* The console after the reconciliation of a cycle: run() logs the report and does
\* nothing else with it.
Reconciled(c, rec) == [c EXCEPT !.event_log = ReconciledLog(@, rec)]

\* The store before an operation of the loop.
StoreNow == [inodes |-> inodes, state_file |-> state_file, saver |-> saver, saves |-> <<>>]

\* The console, the router and the store become what an operation of the loop made of
\* them; op is its record.
LoopCommit(c, m, cfg, equities, controls, rec, st, behaviour, op) ==
    /\ (Len(c.router.place_calls) = Len(place_calls) => behaviour = Raises)
    /\ mode' = m
    /\ config' = cfg
    /\ cash' = c.cash
    /\ realized_pnl' = c.realized_pnl
    /\ positions' = c.positions
    /\ event_log' = c.event_log
    /\ signal_triggers' = c.signal_triggers
    /\ equity_history' = equities
    /\ symbol_controls' = controls
    /\ last_order_at' = c.router.last_order_at
    /\ orders_today' = c.router.orders_today
    /\ orders_day' = c.router.orders_day
    /\ journal' = rec.st.journal
    /\ place_calls' = c.router.place_calls
    /\ result' = c.router.result
    /\ calls' = c.router.calls
    /\ status_calls' = status_calls \o [k \in 1..Len(rec.st.queried) |->
                            [order_id |-> rec.st.journal[rec.st.queried[k]].broker_order_id,
                             journal_id |-> rec.st.queried[k]]]
    /\ inodes' = st.inodes
    /\ state_file' = st.state_file
    /\ saver' = st.saver
    /\ session' = Append(session, op)
    /\ recon' = IF rec.ran
                THEN Append(recon, [mode |-> m, broker |-> broker, before |-> c.router.journal,
                                    after |-> rec.st.journal,
                                    answers |-> [i \in 1..Len(c.router.journal) |-> rec.answer],
                                    queried |-> rec.st.queried,
                                    result |-> [checked |-> rec.checked,
                                                updated |-> Len(rec.st.updated_rows),
                                                rows |-> rec.st.updated_rows]])
                ELSE recon
    /\ (rec.st.queried = <<>> => rec.answer = Raises)
    /\ UNCHANGED <<broker, risk_engine, now, ticks, guard, calc, event_bus, journalVars,
                   temp_files, reader, loads, runtime_watchlist>>

\* A pass of the while loop that is due for a refresh, once _process_signals left the
\* console as c and the reconciliation left the journal as rec says.  export is what
\* _export_dashboard_state does: it returns, its journal query raises, or its write fails
\* (write_dashboard_state returns False).  An exception leaves the loop through the
\* finally clause, which saves the session.
CyclePassed(e, c, symbols, snapshots, rec, export, saved, behaviour) ==
    LET logged == Reconciled(c, rec)
        equity == ComputeEquity(logged.cash, Values(logged.positions), snapshots)
        equities == LastN(Append(equity_history, equity), 200)
        console == [cash |-> logged.cash, realized_pnl |-> logged.realized_pnl,
                    positions |-> logged.positions, event_log |-> logged.event_log,
                    equity_history |-> equities, runtime_watchlist |-> runtime_watchlist,
                    mode |-> e.mode, config |-> e.config]
        raised == export = "query_raises"
    IN  LoopCommit(logged, e.mode, e.config, equities, e.symbol_controls, rec,
                   SaveRuntimeStateOn(StoreNow, console, symbols, e.now, saved), behaviour,
                   [op |-> "run_cycle", symbols |-> symbols, snapshots |-> snapshots,
                    export |-> export, saved |-> <<saved>>, raised |-> raised,
                    log_before |-> event_log, running |-> ~raised])

CycleProcessed(e, c, symbols, snapshots, answer, export, saved, behaviour) ==
    CyclePassed(e, c, symbols, snapshots, CycleReconciled(e, c, answer), export, saved, behaviour)

\* The event log after _build_snapshot: a download that raises is caught and logged for
\* its symbol, which then has no price.
RECURSIVE BuildSnapshotLog(_, _, _)
BuildSnapshotLog(log, symbols, quote) ==
    IF symbols = <<>> \/ ~quote.raises THEN log
    ELSE BuildSnapshotLog(LogEvent(log, <<Head(symbols), "data error">>), Tail(symbols), quote)

\* One pass of the while loop of run() that runs a cycle.
RunCycle(quote, behaviour, answer, export, saved) ==
    LET symbols == LoopOp.symbols
        e == [Env(behaviour) EXCEPT !.symbol_controls = DefaultControls(symbols)]
        snapshots == LoopSnapshots(symbols, quote)
        built == [ConsoleState EXCEPT !.event_log = BuildSnapshotLog(@, symbols, quote)]
    IN  /\ InLoop
        /\ saver.pc = "idle" /\ reader.pc = "idle"
        /\ CycleProcessed(e, ProcessSignalsOn(e, built, snapshots), symbols, snapshots,
                          answer, export, saved, behaviour)

\* The console has taken the command: the session is saved, and saved once more by the
\* finally clause when the command ended the loop.
CommandApplied(done, cmd, saved, at) ==
    LET first == SaveRuntimeStateOn(done.st, done.c, done.symbols, at, saved[1])
        last == IF done.running THEN first
                ELSE SaveRuntimeStateOn(first, done.c, done.symbols, at, saved[2])
    IN  /\ mode' = done.c.mode
        /\ config' = done.c.config
        /\ event_log' = done.c.event_log
        /\ inodes' = last.inodes
        /\ state_file' = last.state_file
        /\ saver' = last.saver
        /\ session' = Append(session, [op |-> "run_command", cmd |-> cmd, symbols |-> done.symbols,
                                       saved |-> IF done.running THEN <<saved[1]>> ELSE saved,
                                       raised |-> FALSE, file_before |-> state_file,
                                       file_cleared |-> done.st.state_file,
                                       log_before |-> event_log,
                                       running |-> done.running])
        /\ UNCHANGED <<broker, risk_engine, now, last_order_at, orders_today, orders_day,
                       journal, place_calls, status_calls, result, calls, recon, ticks, guard,
                       calc, event_bus, journalVars, temp_files, reader, loads, cash,
                       realized_pnl, positions, equity_history, runtime_watchlist,
                       signal_triggers, symbol_controls>>

\* One pass of the while loop of run() in which the operator has entered a command.
RunCommand(cmd, cleared, saved) ==
    /\ InLoop
    /\ saver.pc = "idle" /\ reader.pc = "idle"
    /\ CommandApplied(ApplyCommand(Console, LoopOp.symbols, StoreNow, cmd, cleared), cmd, saved, now)

\* What the operator types: /quit, /clearstate, /kill on, /mode live, /add tcs.ns and
\* /remove infy.
LoopCommands ==
    {[key |-> "quit", arg |-> ""], [key |-> "clearstate", arg |-> ""],
     [key |-> "kill", arg |-> "on"], [key |-> "mode", arg |-> "LIVE"],
     [key |-> "add", arg |-> "tcs.ns"], [key |-> "remove", arg |-> "infy"]}

\* The symbols run() is called with.
LoopWatchlists == {<<>>, <<"infy", " ">>}

\* One thing fails at a time, and a disk that takes no snapshot takes none in the finally
\* clause either.  In a cycle the market has no data for any symbol, the download raises
\* for every symbol, or every symbol trades at 10 with a buy signal.
LoopQuotes ==
    {[has_price |-> FALSE, price |-> 0, signal |-> 0, raises |-> FALSE],
     [has_price |-> FALSE, price |-> 0, signal |-> 0, raises |-> TRUE],
     [has_price |-> TRUE, price |-> 10000, signal |-> 1, raises |-> FALSE]}

\* The snapshot an earlier session left on disk: a long position on INFY.
LoopSaved ==
    SerializeState([cash |-> TradeCapital - 100000, realized_pnl |-> 0,
                    positions |-> ("INFY" :> PositionState("INFY", 10, Rat(10000, 1), "LONG", StartTime)),
                    event_log |-> <<>>, equity_history |-> <<TradeCapital>>,
                    runtime_watchlist |-> <<"SBIN", "INFY">>, mode |-> "paper",
                    config |-> [RiskConfig(FALSE, FALSE, 40) EXCEPT !.initial_capital = TradeCapital]],
                   <<"SBIN", "INFY">>)

\* A console as constructed, in a directory with no snapshot or with the snapshot of an
\* earlier session.
InitLoop ==
    /\ mode = "paper" /\ broker = TRUE /\ risk_engine = TRUE
    /\ config = [RiskConfig(FALSE, FALSE, 40) EXCEPT !.initial_capital = TradeCapital]
    /\ RouterFresh
    /\ guard = Empty /\ JournalIdle /\ CalcIdle /\ BusIdle
    /\ \/ StoreIdle
       \/ /\ inodes = <<[doc |-> Stamped(LoopSaved, StartTime), written |-> Chunks]>>
          /\ state_file = 1 /\ temp_files = {}
          /\ saver = SaverIdle /\ reader = ReaderIdle /\ loads = <<>>
    /\ cash = TradeCapital /\ realized_pnl = 0 /\ positions = <<>> /\ event_log = <<>>
    /\ equity_history = <<>> /\ runtime_watchlist = <<>> /\ signal_triggers = <<>>
    /\ symbol_controls = <<>> /\ session = <<>>

\* run() is called on a console that is not running.
LoopStart ==
    /\ Len(session) < MaxLoopOps /\ ~InLoop
    /\ \E symbols \in LoopWatchlists, execution_mode \in {"paper", "LIVE"},
          resume_session \in BOOLEAN :
            RunStart(symbols, execution_mode, resume_session)

LoopCycle ==
    /\ Len(session) < MaxLoopOps
    /\ \E quote \in LoopQuotes, behaviour \in BrokerBehaviours,
          answer \in {Raises, Returns(StatusComplete)},
          export \in {"returns", "query_raises", "write_fails"}, saved \in BOOLEAN :
            /\ ~saved => export = "returns"
            /\ RunCycle(quote, behaviour, answer, export, saved)

LoopCommand ==
    /\ Len(session) < MaxLoopOps
    /\ \E cmd \in LoopCommands, cleared \in BOOLEAN, saved \in BOOLEAN :
            /\ ~cleared => cmd.key = "clearstate" /\ state_file # 0
            /\ ~saved => cmd.key \in {"quit", "clearstate"}
            /\ RunCommand(cmd, cleared, <<saved, saved>>)

NextLoop == LoopStart \/ LoopCycle \/ LoopCommand

SpecLoop == InitLoop /\ [][NextLoop]_vars

(***************************************************************************)
(* The operator at the keyboard: a console with the risk config it is      *)
(* constructed with is started, and commands are typed into the run loop.  *)
(***************************************************************************)
\* The second tokens the operator types after a number-taking command.
NumberTokens == {"0", "-5", "0.001", "0.1", "0.5", "1", "2", "100000", "nan", "abc"}

\* What the operator types.  "" is the return key alone; a command with arg "" has one
\* token only.
Commands ==
    {[key |-> k, arg |-> a] : k \in {"/sl", "/maxpos"}, a \in NumberTokens}
    \cup {[key |-> "/maxorders", arg |-> a] : a \in {"0", "-5", "2", "100000", "0.5", "abc"}}
    \cup {[key |-> k, arg |-> a] : k \in {"/tp", "/risk"}, a \in {"-5", "2"}}
    \cup {[key |-> "/ls", arg |-> "0"], [key |-> "/mo", arg |-> "-5"]}
    \cup {[key |-> "/kill", arg |-> a] : a \in {"on", "off", "Maybe"}}
    \cup {[key |-> "/hours", arg |-> "Maybe"], [key |-> "/buy", arg |-> "Maybe"],
          [key |-> "/sell", arg |-> "Maybe"], [key |-> "/KO", arg |-> "ON"]}
    \cup {[key |-> "/mode", arg |-> a] : a \in {"LIVE", "paper", "sim"}}
    \cup {[key |-> k, arg |-> ""] : k \in {"", "/", "/help", "/foo", "/q", "/sl", "/kill", "/mode"}}
    \cup {[key |-> "add", arg |-> "tcs.ns"], [key |-> "remove", arg |-> "infy"]}

InitCommand ==
    /\ mode = "paper" /\ broker = TRUE /\ risk_engine = TRUE
    /\ config = [RiskConfig(FALSE, TRUE, 40) EXCEPT !.initial_capital = TradeCapital]
    /\ RouterFresh
    /\ guard = Empty /\ JournalIdle /\ CalcIdle /\ BusIdle /\ StoreIdle
    /\ cash = TradeCapital /\ realized_pnl = 0 /\ positions = <<>> /\ event_log = <<>>
    /\ equity_history = <<>> /\ runtime_watchlist = <<>> /\ signal_triggers = <<>>
    /\ symbol_controls = <<>> /\ session = <<>>

\* run() is called on a console that is not running.
CommandStart ==
    /\ Len(session) < MaxCommandOps /\ ~InLoop
    /\ RunStart(<<"infy">>, "paper", FALSE)

\* The operator enters a command.
CommandTyped ==
    /\ Len(session) < MaxCommandOps
    /\ \E cmd \in Commands : RunCommand(cmd, TRUE, <<TRUE, TRUE>>)

NextCommand == CommandStart \/ CommandTyped

SpecCommand == InitCommand /\ [][NextCommand]_vars

(***************************************************************************)
(* A console with a long history: an earlier session left a snapshot with  *)
(* a full or nearly full event log and equity history, and a new console   *)
(* resumes it, runs cycles and takes commands.                             *)
(***************************************************************************)
\* The log lines of n /maxorders commands.
TypedOrders(n) == [k \in 1..n |-> <<"Max orders/day set to", k>>]

\* The equity after each of n cycles in which the held INFY moved by 0.01 a cycle.
PastEquities(n) == [k \in 1..n |-> TradeCapital + 100 * k]

\* The snapshot a session left that logged its start and `typed` /maxorders commands and
\* ran `cycles` cycles while long 10 INFY from 10.
HistorySaved(typed, cycles) ==
    SerializeState([cash |-> TradeCapital - 100000, realized_pnl |-> 0,
                    positions |-> ("INFY" :> PositionState("INFY", 10, Rat(10000, 1), "LONG", StartTime)),
                    event_log |-> LastN(<<<<"Started console in mode", "PAPER">>>> \o TypedOrders(typed), 30),
                    equity_history |-> LastN(PastEquities(cycles), 200),
                    runtime_watchlist |-> <<"INFY">>, mode |-> "paper",
                    config |-> [RiskConfig(FALSE, FALSE, Max(typed, 1)) EXCEPT
                                    !.initial_capital = TradeCapital]],
                   <<"INFY">>)

\* The sessions that went before: short, one step from the bounds, and past them.
Histories == {<<2, 1>>, <<28, 199>>, <<40, 201>>}

\* A console as constructed, in a directory with the snapshot of an earlier session.
InitBounded ==
    /\ mode = "paper" /\ broker = TRUE /\ risk_engine = TRUE
    /\ config = [RiskConfig(FALSE, FALSE, 40) EXCEPT !.initial_capital = TradeCapital]
    /\ RouterFresh
    /\ guard = Empty /\ JournalIdle /\ CalcIdle /\ BusIdle
    /\ \E h \in Histories :
          inodes = <<[doc |-> Stamped(HistorySaved(h[1], h[2]), StartTime), written |-> Chunks]>>
    /\ state_file = 1 /\ temp_files = {}
    /\ saver = SaverIdle /\ reader = ReaderIdle /\ loads = <<>>
    /\ cash = TradeCapital /\ realized_pnl = 0 /\ positions = <<>> /\ event_log = <<>>
    /\ equity_history = <<>> /\ runtime_watchlist = <<>> /\ signal_triggers = <<>>
    /\ symbol_controls = <<>> /\ session = <<>>

\* run() is called on a console that is not running.
BoundedStart ==
    /\ Len(session) < MaxBoundedOps /\ ~InLoop
    /\ \E resume_session \in BOOLEAN : RunStart(<<"infy">>, "paper", resume_session)

\* A cycle: no data, a download that raises, or a price with a signal.
BoundedCycle ==
    /\ Len(session) < MaxBoundedOps
    /\ \E quote \in LoopQuotes \cup {[has_price |-> TRUE, price |-> 10100, signal |-> s, raises |-> FALSE] :
                                        s \in {-1, 0}},
          behaviour \in BrokerBehaviours, saved \in BOOLEAN :
            RunCycle(quote, behaviour, Raises, "returns", saved)

BoundedCommand ==
    /\ Len(session) < MaxBoundedOps
    /\ \E cmd \in {[key |-> "/q", arg |-> ""], [key |-> "/foo", arg |-> ""],
                   [key |-> "/mo", arg |-> "-5"], [key |-> "remove", arg |-> "tcs.ns"]},
          saved \in BOOLEAN :
            RunCommand(cmd, TRUE, <<saved, saved>>)

NextBounded == BoundedStart \/ BoundedCycle \/ BoundedCommand

SpecBounded == InitBounded /\ [][NextBounded]_vars

(***************************************************************************)
(* Live orders that the broker settles later: the console trades in live   *)
(* mode, and the broker reports on the orders it took, in the cycle or     *)
(* when reconcile_order_statuses is called on the router.                  *)
(***************************************************************************)
\* What the broker says about an order: it completed, it was rejected or cancelled
\* after all, or the lookup fails.
SettleAnswers ==
    {Raises, Returns(StatusComplete), Returns(StatusRejected), Returns(StatusCancelled)}

\* INFY at 10 with a buy or a sell signal, or no data.
SettleQuotes ==
    {[has_price |-> FALSE, price |-> 0, signal |-> 0, raises |-> FALSE]}
    \cup {[has_price |-> TRUE, price |-> 10000, signal |-> s, raises |-> FALSE] : s \in {-1, 1}}

InitSettle == InitLoop /\ state_file = 0

SettleStart ==
    /\ Len(session) < MaxSettleOps /\ ~InLoop
    /\ RunStart(<<"infy">>, "LIVE", FALSE)

SettleCycle ==
    /\ Len(session) < MaxSettleOps
    /\ \E quote \in SettleQuotes, behaviour \in BrokerBehaviours,
          answer \in {Raises, Returns(StatusRejected)} :
            RunCycle(quote, behaviour, answer, "returns", TRUE)

\* reconcile_order_statuses is called on the router between two passes of the loop.
SettleReconcile ==
    /\ Len(recon) < MaxSettleOps /\ InLoop
    /\ \E answers \in [Pollable(journal) -> SettleAnswers] : ReconcileOrderStatuses(answers)

NextSettle == SettleStart \/ SettleCycle \/ SettleReconcile

SpecSettle == InitSettle /\ [][NextSettle]_vars

(***************************************************************************)
(* Stop and resume: the console trades in live mode with a limit of        *)
(* one order a day, is stopped, and a new process resumes the session      *)
(* from the snapshot, within the same UTC day.                             *)
(***************************************************************************)
\* Both symbols trade at 10 with a buy signal, or there is no data.
ResumeQuotes ==
    {[has_price |-> FALSE, price |-> 0, signal |-> 0, raises |-> FALSE],
     [has_price |-> TRUE, price |-> 10000, signal |-> 1, raises |-> FALSE]}

InitResume ==
    /\ mode = "paper" /\ broker = TRUE /\ risk_engine = TRUE
    /\ config = [RiskConfig(FALSE, FALSE, 1) EXCEPT !.initial_capital = TradeCapital]
    /\ RouterFresh
    /\ guard = Empty /\ JournalIdle /\ CalcIdle /\ BusIdle /\ StoreIdle
    /\ cash = TradeCapital /\ realized_pnl = 0 /\ positions = <<>> /\ event_log = <<>>
    /\ equity_history = <<>> /\ runtime_watchlist = <<>> /\ signal_triggers = <<>>
    /\ symbol_controls = <<>> /\ session = <<>>

\* run() with auto-resume on a console that is not running.
ResumeStart ==
    /\ Len(session) < MaxResumeOps /\ ~InLoop
    /\ RunStart(<<"infy", "tcs.ns">>, "LIVE", TRUE)

ResumeCycle ==
    /\ Len(session) < MaxResumeOps
    /\ \E quote \in ResumeQuotes, behaviour \in BrokerBehaviours, saved \in BOOLEAN :
            RunCycle(quote, behaviour, Raises, "returns", saved)

\* The operator stops the console.
ResumeQuit ==
    /\ Len(session) < MaxResumeOps
    /\ \E saved \in BOOLEAN : RunCommand([key |-> "quit", arg |-> ""], TRUE, <<saved, saved>>)

\* The program is started again: a new console with the same settings.
ResumeNew ==
    /\ Len(session) < MaxResumeOps /\ session # <<>> /\ ~InLoop /\ ~IsFresh
    /\ NewConsole(TradeCapital, FALSE, FALSE, 1)

NextResume == ResumeStart \/ ResumeCycle \/ ResumeQuit \/ ResumeNew

SpecResume == InitResume /\ [][NextResume]_vars

(***************************************************************************)
(* Properties                                                              *)
(***************************************************************************)
CallIds == 1..Len(calls)
Day(c) == c.at \div SecondsPerDay
Counted(c) == c.result.status \in {"FILLED", "SENT"}
SameKey(c, d) ==
    c.symbol = d.symbol /\ Upper(c.side) = Upper(d.side) /\ c.is_exit = d.is_exit

\* Call i falls in the window opened by an earlier call with its key that was not skipped.
InWindow(i) ==
    \E j \in 1..(i - 1) :
        /\ SameKey(calls[j], calls[i])
        /\ calls[j].result.status # "SKIPPED"
        /\ calls[i].at - calls[j].at <= DuplicateWindow

\* The risk guard admits call i.
GuardAdmits(i) ==
    \/ ~risk_engine
    \/ PreOrderGuard(config, calls[i].mode, calls[i].counter_before, calls[i].is_exit,
                     calls[i].at)[1]

\* C1: every route_order call, in every mode and whatever its outcome, adds exactly one
\* row to the journal, leaves the earlier rows alone, and the status stored in the new
\* row is the status of the returned outcome.
C1_OneRowPerCall ==
    [][calls' # calls =>
        /\ Len(journal') = Len(journal) + 1
        /\ \A i \in 1..Len(journal) : journal'[i] = journal[i]
        /\ result'.journal_id = Len(journal')
        /\ result'.status \in {"SKIPPED", "REJECTED", "FILLED", "SENT"}
        /\ journal'[Len(journal')].status = result'.status]_vars

\* A SENT call followed by a deduplicated call with the same key: two rows, SENT and SKIPPED.
C1_Witness ==
    /\ Len(calls) = 2 /\ Len(journal) = 2
    /\ calls[1].result.status = "SENT" /\ journal[1].status = "SENT"
    /\ calls[2].result.status = "SKIPPED" /\ journal[2].status = "SKIPPED"

\* C2: a call is SKIPPED with reason duplicate_window exactly when an earlier call with the
\* same symbol, side and exit flag that was not itself skipped was made at most 20 seconds
\* before it.  So a second call within the window is skipped, a call more than 20 seconds
\* after the first is not, even when a skipped call lies in between, and calls that differ
\* in symbol, side or exit flag never deduplicate each other.
C2_DedupWindow ==
    \A i \in CallIds :
        /\ (calls[i].result.status = "SKIPPED") = InWindow(i)
        /\ (calls[i].result.status = "SKIPPED" => calls[i].result.reason = "duplicate_window")

\* First call, a skipped second call 10 s later, a third call 21 s after the first and
\* 11 s after the second that is not deduplicated.
C2_Witness ==
    /\ Len(calls) = 3
    /\ SameKey(calls[1], calls[2]) /\ SameKey(calls[1], calls[3])
    /\ calls[1].result.status = "FILLED"
    /\ calls[2].at - calls[1].at = 10 /\ calls[2].result.status = "SKIPPED"
    /\ calls[3].at - calls[1].at = 21 /\ calls[3].result.status = "FILLED"

\* The premise of C3 for call i: live mode, a broker that works, kill switch and
\* market-hours guard off, for every call of that UTC day up to i; call i not a duplicate.
LiveDay(i) ==
    /\ broker /\ risk_engine
    /\ ~config.kill_switch_enabled /\ ~config.market_hours_only
    /\ config.max_orders_per_day >= 1
    /\ ~InWindow(i)
    /\ \A j \in 1..i : Day(calls[j]) = Day(calls[i]) =>
            calls[j].mode = "live" /\ ~calls[j].behaviour.raises

SentEntriesBefore(i) ==
    Cardinality({j \in 1..(i - 1) : /\ Day(calls[j]) = Day(calls[i])
                                    /\ ~calls[j].is_exit
                                    /\ calls[j].result.status = "SENT"})

SentBefore(i) ==
    Cardinality({j \in 1..(i - 1) : /\ Day(calls[j]) = Day(calls[i])
                                    /\ calls[j].result.status = "SENT"})

LimitReached(c) ==
    c.result.status = "REJECTED" /\ c.result.reason = "max_orders_per_day_reached"

\* C3 as stated: an entry is SENT while fewer than N entries were SENT that day and is
\* REJECTED with max_orders_per_day_reached otherwise; exits do not use up the limit.
C3_ExitsNotCounted ==
    \A i \in CallIds :
        LiveDay(i) /\ ~calls[i].is_exit =>
            IF SentEntriesBefore(i) < config.max_orders_per_day
            THEN calls[i].result.status = "SENT"
            ELSE LimitReached(calls[i])

\* C3 amended: an entry is SENT while fewer than N orders, entries and exits together,
\* were SENT that day and is REJECTED with max_orders_per_day_reached otherwise; an exit
\* is SENT whatever the count.
C3_ExitsCountedNeverBlocked ==
    \A i \in CallIds :
        LiveDay(i) =>
            IF calls[i].is_exit \/ SentBefore(i) < config.max_orders_per_day
            THEN calls[i].result.status = "SENT"
            ELSE LimitReached(calls[i])

\* An exit was SENT and a later entry of the same day met the limit.
C3_Witness ==
    \E i \in CallIds :
        /\ LiveDay(i) /\ ~calls[i].is_exit /\ LimitReached(calls[i])
        /\ \E j \in 1..(i - 1) : /\ Day(calls[j]) = Day(calls[i])
                                  /\ calls[j].is_exit /\ calls[j].result.status = "SENT"

\* C4: with the kill switch on and the market-hours guard off, pre_order_guard rejects
\* every entry with kill_switch_enabled and allows every exit with ok, in every mode and
\* for every orders_today; through a live router the entry is REJECTED with that reason
\* and the exit is SENT by a broker that works (calls in the dedup window aside).
C4_KillSwitch ==
    config.kill_switch_enabled /\ ~config.market_hours_only =>
        /\ \A m \in {"paper", "live", "sim"}, n \in 0..MaxOrdersToday, t \in {StartTime, now} :
                /\ PreOrderGuard(config, m, n, FALSE, t) = <<FALSE, "kill_switch_enabled">>
                /\ PreOrderGuard(config, m, n, TRUE, t) = <<TRUE, "ok">>
        /\ \A i \in CallIds :
                calls[i].mode = "live" /\ risk_engine /\ ~InWindow(i) =>
                    IF ~calls[i].is_exit
                    THEN /\ calls[i].result.status = "REJECTED"
                         /\ calls[i].result.reason = "kill_switch_enabled"
                    ELSE broker /\ ~calls[i].behaviour.raises =>
                            calls[i].result.status = "SENT"

\* The kill switch is on; a live entry was REJECTED and a live exit was then SENT.
C4_Witness ==
    /\ config.kill_switch_enabled /\ ~config.market_hours_only /\ risk_engine
    /\ Len(calls) = 2
    /\ calls[1].mode = "live" /\ ~calls[1].is_exit
    /\ calls[1].result.status = "REJECTED" /\ calls[1].result.reason = "kill_switch_enabled"
    /\ calls[2].mode = "live" /\ calls[2].is_exit /\ calls[2].result.status = "SENT"

\* C5: pre_order_guard, kill switch off: outside live mode every order is allowed; in
\* live mode with the market-hours guard on and the market closed entries and exits are
\* rejected with outside_market_hours; otherwise in live mode only an entry with
\* orders_today >= max(1, N) is rejected, with max_orders_per_day_reached, and no exit is.
\* The kill switch is checked first, then the mode, the market hours and the limit.
C5_GuardOrder ==
    "ret" \in DOMAIN guard =>
        LET closed == guard.cfg.market_hours_only /\ ~IsMarketOpen(guard.now_utc)
            full == guard.orders_today >= guard.cfg.max_orders_per_day /\ guard.orders_today >= 1
        IN  /\ guard.cfg.kill_switch_enabled /\ ~guard.is_exit =>
                    guard.ret = <<FALSE, "kill_switch_enabled">>
            /\ ~guard.cfg.kill_switch_enabled \/ guard.is_exit =>
                    /\ guard.mode # "live" => guard.ret = <<TRUE, "ok">>
                    /\ guard.mode = "live" /\ closed =>
                            guard.ret = <<FALSE, "outside_market_hours">>
                    /\ guard.mode = "live" /\ ~closed /\ ~guard.is_exit /\ full =>
                            guard.ret = <<FALSE, "max_orders_per_day_reached">>
                    /\ guard.mode = "live" /\ ~closed /\ (guard.is_exit \/ ~full) =>
                            guard.ret = <<TRUE, "ok">>

\* Live, kill switch off, market closed with the guard on, an entry with the limit reached:
\* the market hours decide.
C5_Witness ==
    /\ "ret" \in DOMAIN guard
    /\ guard.mode = "live" /\ ~guard.cfg.kill_switch_enabled /\ ~guard.is_exit
    /\ guard.cfg.market_hours_only /\ ~IsMarketOpen(guard.now_utc)
    /\ guard.cfg.max_orders_per_day = 2 /\ guard.orders_today = 2
    /\ guard.ret = <<FALSE, "outside_market_hours">>

\* No place_order was made while the router was in paper mode.
BrokerIdleInPaper == \A k \in 1..Len(place_calls) : place_calls[k].router_mode # "paper"

\* C6 as stated: in paper mode a call that is neither deduplicated nor blocked by the guard
\* returns FILLED with the requested quantity and the requested price, and place_order is
\* never invoked while the mode is paper.
C6_FilledAtRequestedPrice ==
    /\ BrokerIdleInPaper
    /\ \A i \in CallIds :
            calls[i].mode = "paper" /\ ~InWindow(i) /\ GuardAdmits(i) =>
                /\ calls[i].result.status = "FILLED"
                /\ calls[i].result.quantity = calls[i].quantity
                /\ calls[i].result.price = calls[i].price

\* C6 amended: ... returns FILLED with the requested quantity and the requested price
\* rounded to two decimals (a whole number of hundredths, at most half a hundredth away
\* from the requested price), and place_order is never invoked while the mode is paper.
C6_FilledAtRoundedPrice ==
    /\ BrokerIdleInPaper
    /\ \A i \in CallIds :
            calls[i].mode = "paper" /\ ~InWindow(i) /\ GuardAdmits(i) =>
                /\ calls[i].result.status = "FILLED"
                /\ calls[i].result.quantity = calls[i].quantity
                /\ calls[i].result.price % 10 = 0
                /\ calls[i].result.price - calls[i].price \in -5..5

\* A paper router with a broker filled 50 at 100.13 for a request at 100.126.
C6_Witness ==
    /\ broker /\ place_calls = <<>>
    /\ \E i \in CallIds :
            /\ calls[i].mode = "paper" /\ calls[i].price = 100126 /\ calls[i].quantity = 50
            /\ calls[i].result.status = "FILLED"
            /\ calls[i].result.quantity = 50 /\ calls[i].result.price = 100130

\* C7: in live mode a call that passes dedup and the guard is REJECTED with
\* broker_not_configured when there is no broker, and REJECTED with a reason wrapping the
\* error when place_order raises; either way the call returns an outcome and the daily
\* order counter reads the same after the call as before it.
C7_BrokerFailureRejected ==
    \A i \in CallIds :
        calls[i].mode = "live" /\ ~InWindow(i) /\ GuardAdmits(i) =>
            /\ ~broker =>
                    /\ calls[i].result.status = "REJECTED"
                    /\ calls[i].result.reason = "broker_not_configured"
                    /\ calls[i].counter_after = calls[i].counter_before
            /\ broker /\ calls[i].behaviour.raises =>
                    /\ calls[i].result.status = "REJECTED"
                    /\ calls[i].result.reason = <<"broker_error:", calls[i].behaviour.message>>
                    /\ calls[i].counter_after = calls[i].counter_before

\* After an order was SENT, place_order raised for the next one: REJECTED, counter still 1.
C7_Witness ==
    /\ Len(calls) = 2
    /\ calls[1].result.status = "SENT"
    /\ calls[2].mode = "live" /\ calls[2].behaviour.raises
    /\ calls[2].result.status = "REJECTED"
    /\ calls[2].counter_before = 1 /\ calls[2].counter_after = 1

\* C8: the orders_today property reads the number of calls of the current UTC day that
\* returned FILLED or SENT: each such call adds one, a SKIPPED or REJECTED call adds
\* nothing, and the property reads 0 once the UTC date has changed.
C8_CounterIsCountOfToday ==
    /\ OrdersTodayProperty(orders_today, orders_day, now) =
            Cardinality({i \in CallIds : Day(calls[i]) = UtcDate(now) /\ Counted(calls[i])})
    /\ \A i \in CallIds :
            calls[i].counter_after =
                calls[i].counter_before + (IF Counted(calls[i]) THEN 1 ELSE 0)

\* An order counted yesterday, the date has changed and the stale counter reads 0.
C8_Witness ==
    /\ orders_today >= 1 /\ orders_day # UtcDate(now)
    /\ \E i \in CallIds : Counted(calls[i]) /\ Day(calls[i]) # UtcDate(now)
    /\ OrdersTodayProperty(orders_today, orders_day, now) = 0

\* The rows of a reconciliation run that were live and not final before it and for which
\* the broker reports a status.
Reported(r) ==
    {i \in DOMAIN r.answers :
        /\ r.before[i].mode = "live"
        /\ r.before[i].status \notin FINAL_STATES
        /\ ~r.answers[i].raises
        /\ ExtractBrokerStatus(r.answers[i].response) # ""}

Queried(r) == {r.queried[k] : k \in 1..Len(r.queried)}

\* C9 as stated: after a reconciliation in live mode with a broker, every live row that
\* was not final and for which the broker reports a status was queried and carries the
\* upper-cased status the broker reported.
C9_NonFinalRowsReconciled ==
    \A k \in 1..Len(recon) :
        recon[k].mode = "live" /\ recon[k].broker =>
            \A i \in Reported(recon[k]) :
                /\ i \in Queried(recon[k])
                /\ recon[k].after[i].status = Upper(ExtractBrokerStatus(recon[k].answers[i].response))

\* The rows a reconciliation run fetched that carry a broker order id.
Fetched(r) ==
    LET ids == GetOpenLiveOrders(r.before, ReconcileLimit)
    IN  {ids[k] : k \in 1..Len(ids)} \cap {i \in 1..Len(r.before) : r.before[i].broker_order_id # ""}

\* C10: when get_order_status raises for a row, reconcile_order_statuses still returns,
\* the row keeps its journal status, and every other fetched row is queried and, when the
\* broker reports a status, updated.
C10_RowFailureSwallowed ==
    \A k \in 1..Len(recon) :
        recon[k].mode = "live" /\ recon[k].broker =>
            /\ recon[k].result.checked = Len(GetOpenLiveOrders(recon[k].before, ReconcileLimit))
            /\ \A i \in Fetched(recon[k]) :
                    /\ i \in Queried(recon[k])
                    /\ recon[k].answers[i].raises =>
                            recon[k].after[i] = recon[k].before[i]
                    /\ i \in Reported(recon[k]) =>
                            recon[k].after[i].status =
                                Upper(ExtractBrokerStatus(recon[k].answers[i].response))

\* The lookup of the newest row raised, the older row was still updated to COMPLETE.
C10_Witness ==
    \E k \in 1..Len(recon) :
        /\ recon[k].mode = "live" /\ recon[k].broker
        /\ Fetched(recon[k]) = {1, 2}
        /\ recon[k].answers[2].raises /\ recon[k].after[2].status = "SENT"
        /\ ~recon[k].answers[1].raises /\ recon[k].after[1].status = "COMPLETE"
        /\ recon[k].result.updated = 1

(***************************************************************************)
(* OrderJournal                                                            *)
(***************************************************************************)

\* The ids of the rows of journal j that are live and in an open status.
OpenLive(j) == {i \in 1..Len(j) : j[i].mode = "live" /\ j[i].status \in {"SENT", "OPEN", "PARTIAL"}}

QueryCalls == {k \in 1..Len(jcalls) : jcalls[k].op = "get_open_live_orders"}

\* C11: after any sequence of record_order and update_order calls,
\* get_open_live_orders(limit) returns exactly the rows whose mode is live and
\* whose current status is an open status (SENT, OPEN, PARTIAL), most recent
\* first and the `limit` most recent of them when there are more; so a live
\* SENT order is returned until update_order moves it to COMPLETE and is not
\* returned afterwards.
C11_OpenLiveOrdersQuery ==
    \A k \in QueryCalls :
        LET j == jcalls[k].before
            r == jcalls[k].returned
            returned_ids == {r[n].id : n \in 1..Len(r)}
        IN  /\ Len(r) = Min(jcalls[k].args.limit, Cardinality(OpenLive(j)))
            /\ returned_ids \subseteq OpenLive(j)
            /\ \A n \in 1..Len(r) : /\ r[n].status = j[r[n].id].status
                                     /\ r[n].broker_order_id = j[r[n].id].broker_order_id
                                     /\ r[n].symbol = j[r[n].id].symbol
            /\ \A n \in 1..(Len(r) - 1) : r[n].id > r[n + 1].id
            /\ \A i \in OpenLive(j) \ returned_ids : \A n \in 1..Len(r) : r[n].id > i
            /\ \A i \in 1..Len(j) :
                    j[i].mode = "live" /\ j[i].status = "COMPLETE" => i \notin returned_ids

\* The journal's own test: the SENT live order is returned, then updated to
\* COMPLETE, then no longer returned.
C11_Witness ==
    /\ Len(jcalls) = 4
    /\ jcalls[1].op = "record_order" /\ jcalls[1].args.status = "SENT"
    /\ jcalls[1].args.mode = "live"
    /\ jcalls[2].op = "get_open_live_orders" /\ Len(jcalls[2].returned) = 1
    /\ jcalls[2].returned[1].broker_order_id = "abc-123"
    /\ jcalls[3].op = "update_order" /\ jcalls[3].args.journal_id = 1
    /\ jcalls[3].args.status = "COMPLETE" /\ jcalls[3].returned
    /\ jcalls[4].op = "get_open_live_orders" /\ jcalls[4].returned = <<>>

\* The columns of a row that no operation revises.
SameOrder(a, b) ==
    /\ a.id = b.id /\ a.created_at = b.created_at /\ a.symbol = b.symbol /\ a.side = b.side
    /\ a.quantity = b.quantity /\ a.price = b.price /\ a.mode = b.mode
    /\ a.broker_order_id = b.broker_order_id /\ a.is_exit = b.is_exit

\* C12: journal rows are immutable except for status, reason, broker payload
\* and updated-at: no step of update_order, reconcile_order_statuses or
\* route_order removes a row or changes the id, created-at, symbol, side,
\* quantity, price, mode, broker order id or exit flag of an existing row;
\* update_order changes no row other than the one with the given id, and
\* returns false and changes nothing when the id does not exist; route_order
\* changes no existing row at all.
C12_RowsImmutable ==
    [][/\ Len(journal') >= Len(journal)
       /\ \A i \in 1..Len(journal) : SameOrder(journal[i], journal'[i])
       /\ Len(calls') > Len(calls) => \A i \in 1..Len(journal) : journal'[i] = journal[i]
       /\ Len(jcalls') > Len(jcalls) /\ jcalls'[Len(jcalls')].op = "update_order" =>
             LET c == jcalls'[Len(jcalls')]
             IN  /\ Len(journal') = Len(journal)
                 /\ \A i \in 1..Len(journal) :
                        i # c.args.journal_id => journal'[i] = journal[i]
                 /\ c.returned = (c.args.journal_id \in 1..Len(journal))
                 /\ ~c.returned => journal' = journal]_vars

\* A routed row was revised by reconciliation and another by update_order,
\* and an update_order for an id that does not exist returned false.
C12_Witness ==
    /\ Len(journal) >= 2
    /\ \E k \in 1..Len(recon) : recon[k].result.updated >= 1
    /\ \E k \in 1..Len(jcalls) : jcalls[k].op = "update_order" /\ ~jcalls[k].returned
    /\ \E i \in 1..Len(journal) : journal[i].reason = "reconciled"

(***************************************************************************)
(* Session snapshot                                                        *)
(***************************************************************************)
Restores == {k \in 1..Len(session) : session[k].op \in {"restore", "run"}}

\* The console whose save_state wrote the file a restore read.
SavedConsole(k) ==
    LET m == CHOOSE m \in 1..(k - 1) : session[m].op = "save" /\ session[m].file = session[k].file
    IN  session[m].console

\* C13: saving the serialized state of a console and then loading and
\* restoring it, into the same or another console, reproduces cash, realized
\* P&L and the full set of open positions (symbol, side, quantity, entry
\* price, opened-at) exactly; load_state returns no prior session exactly when
\* the file is missing or does not parse, and then nothing is restored.
C13_SessionRoundTrip ==
    /\ \A k \in Restores :
          session[k].ret =>
             /\ session[k].after.cash = SavedConsole(k).cash
             /\ session[k].after.realized_pnl = SavedConsole(k).realized_pnl
             /\ session[k].after.positions = SavedConsole(k).positions
    /\ \A k \in Restores :
          session[k].op = "restore" /\ ~session[k].ret => session[k].after = session[k].before
    /\ \A k \in 1..Len(loads) :
          loads[k].ret = None <=> (loads[k].file = 0 \/ ~Complete(loads[k].read))

\* A console holding a long and a short position was saved, and a newly
\* constructed console with another cash balance restored it.
C13_Witness ==
    \E k \in Restores :
        /\ session[k].op = "restore" /\ session[k].ret /\ session[k].fresh
        /\ session[k].before.cash # session[k].after.cash
        /\ DOMAIN session[k].after.positions = {"TCS.NS", "INFY"}
        /\ session[k].after.positions["INFY"].side = "SHORT"
        /\ session[k].after.positions["INFY"].entry_price = Rat(301001, 3)
        /\ session[k].after.realized_pnl = 25000

\* C14: a freshly constructed console that restores a saved snapshot ends
\* with the same cash, realized P&L, open positions, watchlist, router mode
\* and every field of the risk config, initial capital included, as the
\* console that saved it, whatever the fresh console was constructed or
\* started with.
C14_SnapshotSelfSufficient ==
    \A k \in Restores :
        session[k].fresh /\ session[k].ret =>
            /\ session[k].after.cash = SavedConsole(k).cash
            /\ session[k].after.realized_pnl = SavedConsole(k).realized_pnl
            /\ session[k].after.positions = SavedConsole(k).positions
            /\ session[k].after.runtime_watchlist = SavedConsole(k).runtime_watchlist
            /\ session[k].op = "run" => session[k].symbols = SavedConsole(k).runtime_watchlist
            /\ session[k].after.mode = SavedConsole(k).mode
            /\ session[k].after.config = SavedConsole(k).config

(***************************************************************************)
(* SessionStateStore                                                       *)
(***************************************************************************)
\* C15: session-state writes are atomic for a concurrent reader: at every
\* point of every interleaving of save_state with load_state, and after the
\* saving process dies at any step, the session-state file is absent, or
\* holds the complete previous document, or the complete new document; and
\* every load_state reads a complete document or finds no file.
C15_AtomicSessionWrite ==
    /\ state_file # 0 =>
          /\ Complete(inodes[state_file])
          /\ inodes[state_file].doc \in {saver.prev, saver.state}
    /\ reader.pc = "open" => Complete(inodes[reader.handle])
    /\ \A k \in 1..Len(loads) :
          \/ loads[k].read = None /\ loads[k].ret = None /\ loads[k].file = 0
          \/ /\ loads[k].read # None
             /\ Complete(loads[k].read)
             /\ loads[k].ret = loads[k].read.doc

\* The saving process died while writing a new document: its half-written
\* temp file is left behind, the session-state file still holds the previous
\* document, and a load_state after the crash returned that document.
C15_Witness ==
    /\ saver.pc = "idle" /\ saver.ret = "crashed"
    /\ \E t \in temp_files : inodes[t].written = 1 /\ inodes[t].doc = saver.state
    /\ state_file # 0 /\ StateDoc = saver.prev /\ saver.state # saver.prev
    /\ loads # <<>> /\ loads[Len(loads)].ret = saver.prev
    /\ loads[Len(loads)].file = state_file

(***************************************************************************)
(* PositionSizer                                                           *)
(***************************************************************************)
\* floor(n / d) for d > 0
Floor(n, d) == n \div d

Sized == calc.fn = "calculate_quantity" /\ calc.done

\* The three bounds of a sizing call, with the given floors on the three percentages.
ByRisk(a, risk_floor, stop_floor) ==
    Floor(a.capital_base * Max(a.risk_per_trade_pct, risk_floor),
          a.price * Max(a.stop_loss_pct, stop_floor))
ByAllocation(a, alloc_floor) ==
    Floor(a.capital_base * Max(a.max_position_pct, alloc_floor), a.price * 10000)
ByCash(a) == Floor(a.cash, a.price)

\* C16 as stated: calculate_quantity returns the minimum of
\* floor(capital * risk% / (price * stopLoss%)), floor(capital * maxPosition% / price) and
\* floor(cash / price), clamped to >= 0, where only the stop-loss % is floored (at 0.001);
\* the result is never negative and is 0 whenever price <= 0 or cash <= 0.
C16_OnlyStopLossFloored ==
    Sized =>
        LET a == calc.args
        IN  /\ calc.ret >= 0
            /\ (a.price <= 0 \/ a.cash <= 0) => calc.ret = 0
            /\ (a.price > 0 /\ a.cash > 0) =>
                    calc.ret = Max(0, Min(ByRisk(a, 0, 10), Min(ByAllocation(a, 0), ByCash(a))))

\* C16, amended: calculate_quantity returns the minimum of the three floors clamped to >= 0,
\* where the stop-loss % and the risk-per-trade % are floored at 0.001 and the max-position %
\* is floored at 0.01; the result is never negative and is 0 whenever price <= 0 or cash <= 0.
C16_MinOfThreeFloors ==
    Sized =>
        LET a == calc.args
        IN  /\ calc.ret >= 0
            /\ (a.price <= 0 \/ a.cash <= 0) => calc.ret = 0
            /\ (a.price > 0 /\ a.cash > 0) =>
                    calc.ret = Max(0, Min(ByRisk(a, 10, 10), Min(ByAllocation(a, 100), ByCash(a))))

\* The call of test_position_sizer (amounts divided by 100): by risk 500, by allocation 100,
\* by cash 100, so 100 is returned.
C16_Witness ==
    /\ Sized
    /\ calc.args = [cash |-> 100000, price |-> 1000, risk_per_trade_pct |-> 100,
                    stop_loss_pct |-> 200, max_position_pct |-> 1000, capital_base |-> 1000000]
    /\ ByRisk(calc.args, 10, 10) = 500
    /\ calc.ret = 100

(***************************************************************************)
(* RiskEngine.check_exit / check_exit_short                                *)
(***************************************************************************)
\* The adverse and the favourable move of a position, as a multiple of 1/10000 of entry.
Fallen(a, pct) == (a.entry_price - a.current_price) * 10000 >= pct * a.entry_price
Risen(a, pct) == (a.current_price - a.entry_price) * 10000 >= pct * a.entry_price

\* C17: for every entry price > 0, check_exit returns STOP_LOSS exactly when the price has
\* fallen from entry by at least the stop-loss %, otherwise TAKE_PROFIT exactly when it has
\* risen by at least the take-profit %, otherwise no exit; check_exit_short is the mirror
\* image; the thresholds are inclusive.
C17_InclusiveThresholds ==
    LET a == calc.args
    IN  /\ (/\ calc.fn = "check_exit" /\ calc.done /\ a.entry_price > 0
            /\ a.stop_loss_pct >= 0 /\ a.take_profit_pct >= 0)
               => calc.ret = IF Fallen(a, a.stop_loss_pct) THEN <<TRUE, "STOP_LOSS">>
                             ELSE IF Risen(a, a.take_profit_pct) THEN <<TRUE, "TAKE_PROFIT">>
                             ELSE <<FALSE, "NONE">>
        /\ (/\ calc.fn = "check_exit_short" /\ calc.done /\ a.entry_price > 0
            /\ a.stop_loss_pct >= 0 /\ a.take_profit_pct >= 0)
               => calc.ret = IF Risen(a, a.stop_loss_pct) THEN <<TRUE, "STOP_LOSS">>
                             ELSE IF Fallen(a, a.take_profit_pct) THEN <<TRUE, "TAKE_PROFIT">>
                             ELSE <<FALSE, "NONE">>

(***************************************************************************)
(* RiskEngine.can_open_position                                            *)
(***************************************************************************)
Notional(a) == a.entry_price * a.quantity
OverAllocation(a) == Notional(a) * 10000 > OpenConfig(a).initial_capital * a.max_position_pct
OverCash(a) == Notional(a) > a.cash
OverCapital(a) == a.current_exposure + Notional(a) > OpenConfig(a).initial_capital

\* C18: can_open_position rejects with the first failing reason, in this order:
\* quantity <= 0; notional above initial capital * max-position %; notional above the
\* available cash; current exposure + notional above the initial capital; otherwise it
\* allows.  The call changes nothing but its return value: the config stays as it was.
C18_FirstFailingReason ==
    (calc.fn = "can_open_position" /\ calc.done) =>
        LET a == calc.args
        IN  /\ a.quantity <= 0 => calc.ret = <<FALSE, "Quantity is zero.">>
            /\ (a.quantity > 0 /\ OverAllocation(a)) =>
                    calc.ret = <<FALSE, AllocationReason(a.max_position_pct)>>
            /\ (a.quantity > 0 /\ ~OverAllocation(a) /\ OverCash(a)) =>
                    calc.ret = <<FALSE, "Insufficient cash for position.">>
            /\ (a.quantity > 0 /\ ~OverAllocation(a) /\ ~OverCash(a) /\ OverCapital(a)) =>
                    calc.ret = <<FALSE, "Projected exposure exceeds total capital.">>
            /\ (a.quantity > 0 /\ ~OverAllocation(a) /\ ~OverCash(a) /\ ~OverCapital(a)) =>
                    calc.ret = <<TRUE, "OK">>
            /\ config = RiskConfig(FALSE, FALSE, 1)

\* A call that fails the allocation, the cash and the capital checks at once is rejected
\* for its allocation.
C18_Witness ==
    /\ calc.fn = "can_open_position" /\ calc.done
    /\ calc.args.quantity > 0
    /\ OverAllocation(calc.args) /\ OverCash(calc.args) /\ OverCapital(calc.args)
    /\ calc.ret = <<FALSE, "Position size exceeds max allocation (10%).">>

(***************************************************************************)
(* LiveTradingConsole: positions                                           *)
(***************************************************************************)
LastOp == session[Len(session)]

\* The last operation was a manual order that the router accepted (FILLED in paper mode,
\* SENT in live mode) for a symbol with an open position.
FilledOnPosition ==
    /\ session # <<>>
    /\ LastOp.op = "manual"
    /\ Upper(LastOp.side) \in {"BUY", "SELL"} /\ LastOp.quantity > 0 /\ LastOp.price > 0
    /\ Accepted(LastOp.ret)
    /\ Upper(LastOp.symbol) \in DOMAIN LastOp.before.positions

Held == LastOp.before.positions[Upper(LastOp.symbol)]
SameDirection == (Held.side = "LONG") = (Upper(LastOp.side) = "BUY")
Opposite(side) == IF side = "LONG" THEN "SHORT" ELSE "LONG"

\* C19: each symbol has at most one open position, every open position has quantity > 0,
\* and an accepted manual order of size Q against a position of size P: in the opposite
\* direction it books realized P&L on min(P, Q), leaves P - Q in the original direction
\* when Q < P, removes the position when Q = P, and when Q > P opens Q - P in the new
\* direction at the fill price; in the same direction it adds Q and sets the entry price
\* to the volume-weighted average.
C19_OnePositionPerSymbol ==
    /\ \A sym \in DOMAIN positions : positions[sym].symbol = sym /\ positions[sym].quantity > 0
    /\ FilledOnPosition =>
        LET sym == Upper(LastOp.symbol)
            P == Held.quantity
            Q == LastOp.quantity
            price == LastOp.price
            entry == Held.entry_price
            gain == IF Held.side = "LONG" THEN price * entry.d - entry.n
                    ELSE entry.n - price * entry.d
        IN  IF SameDirection
            THEN /\ sym \in DOMAIN positions
                 /\ positions[sym].side = Held.side
                 /\ positions[sym].quantity = P + Q
                 /\ positions[sym].entry_price.n * entry.d * (P + Q)
                        = (entry.n * P + price * Q * entry.d) * positions[sym].entry_price.d
                 /\ realized_pnl = LastOp.before.realized_pnl
            ELSE /\ (realized_pnl - LastOp.before.realized_pnl) * entry.d = gain * Min(P, Q)
                 /\ Q < P => /\ sym \in DOMAIN positions
                             /\ positions[sym] = [Held EXCEPT !.quantity = P - Q]
                 /\ Q = P => sym \notin DOMAIN positions
                 /\ Q > P => /\ sym \in DOMAIN positions
                             /\ positions[sym].side = Opposite(Held.side)
                             /\ positions[sym].quantity = Q - P
                             /\ positions[sym].entry_price = Rat(price, 1)

\* A sale of 15 against a long position of 10 bought at another price: the 10 are closed
\* at a profit or a loss and a short position of 5 is open at the price of the sale.
C19_Witness ==
    /\ FilledOnPosition
    /\ Held.side = "LONG" /\ Held.quantity = 10
    /\ Upper(LastOp.side) = "SELL" /\ LastOp.quantity = 15
    /\ realized_pnl # LastOp.before.realized_pnl
    /\ positions["INFY"].side = "SHORT" /\ positions["INFY"].quantity = 5

(***************************************************************************)
(* LiveTradingConsole: exits in a cycle                                    *)
(***************************************************************************)
\* The threshold the move from the entry price to the price meets: the adverse move
\* against the stop-loss % first, then the favourable move against the take-profit %.
ThresholdMet(cfg, position, price) ==
    LET entry == position.entry_price
        up == price * entry.d - entry.n
        adverse == IF position.side = "LONG" THEN -up ELSE up
    IN  IF adverse * 10000 >= cfg.stop_loss_pct * entry.n THEN "STOP_LOSS"
        ELSE IF -adverse * 10000 >= cfg.take_profit_pct * entry.n THEN "TAKE_PROFIT"
        ELSE "NONE"

\* The orders routed and the triggers recorded by the last operation.
RoutedNow == {calls[k] : k \in (LastOp.before.calls + 1)..Len(calls)}
TriggeredNow ==
    {signal_triggers[k] : k \in 1..(Len(signal_triggers) - LastOp.before.signal_triggers)}

ExitRouted(position) ==
    \E order \in RoutedNow :
        /\ order.symbol = position.symbol /\ order.is_exit
        /\ order.quantity = position.quantity
        /\ order.side = IF position.side = "LONG" THEN "SELL" ELSE "BUY"

ExitReason(position, reason) ==
    \E trigger \in TriggeredNow : trigger.symbol = position.symbol /\ trigger.action = reason

\* C20: in each cycle, for every symbol with an open position and a price: if the move
\* meets the stop-loss or the take-profit threshold, an exit order for the position is
\* routed in that cycle with that reason, whatever the signal and the switches of the
\* closing side; only when neither threshold is met does an opposing signal route a
\* strategy exit, and then only if that side is enabled globally and for the symbol.
C20_ExitsPrivileged ==
    (session # <<>> /\ LastOp.op = "cycle") =>
        \A i \in 1..Len(LastOp.snapshots) :
            LET snapshot == LastOp.snapshots[i]
                before == LastOp.before
            IN  (snapshot.has_price /\ snapshot.symbol \in DOMAIN before.positions) =>
                    LET position == before.positions[snapshot.symbol]
                        met == ThresholdMet(before.config, position, snapshot.price)
                        closing == IF position.side = "LONG" THEN -1 ELSE 1
                        side == IF position.side = "LONG" THEN "sell" ELSE "buy"
                        enabled == /\ IsSignalEnabled(before.config, closing)
                                   /\ IsSymbolSideEnabled(before.symbol_controls,
                                                          snapshot.symbol, side)
                    IN  IF met # "NONE"
                        THEN ExitRouted(position) /\ ExitReason(position, met)
                        ELSE ExitRouted(position) <=> (snapshot.signal = closing /\ enabled)

(***************************************************************************)
(* LiveTradingConsole: a cycle after the daily loss limit is breached      *)
(***************************************************************************)
\* The last operation was a cycle that found the realized loss at or past the limit.
BreachedCycle ==
    /\ session # <<>> /\ LastOp.op = "cycle"
    /\ DailyLossBreached(LastOp.before.config, LastOp.before.realized_pnl)

\* The open position of a snapshot of the last cycle that should be exited: at its
\* stop-loss or take-profit, or against an opposing signal whose side is enabled.
ExitDue(snapshot) ==
    /\ snapshot.has_price /\ snapshot.symbol \in DOMAIN LastOp.before.positions
    /\ LET position == LastOp.before.positions[snapshot.symbol]
           closing == IF position.side = "LONG" THEN -1 ELSE 1
           side == IF position.side = "LONG" THEN "sell" ELSE "buy"
       IN  \/ ThresholdMet(LastOp.before.config, position, snapshot.price) # "NONE"
           \/ /\ snapshot.signal = closing
              /\ IsSignalEnabled(LastOp.before.config, closing)
              /\ IsSymbolSideEnabled(LastOp.before.symbol_controls, snapshot.symbol, side)

\* In a breached cycle no entry order is routed and no position is opened.
BreachedNoEntry ==
    BreachedCycle =>
        /\ \A order \in RoutedNow : order.is_exit
        /\ DOMAIN positions \subseteq DOMAIN LastOp.before.positions

\* C21: in a cycle where the daily loss limit is breached no new entry order is routed
\* for any symbol, while the open positions are still checked for stop-loss, take-profit
\* and opposing signals and their exit orders are still routed.
C21_BreachedStillExits ==
    BreachedCycle =>
        /\ \A order \in RoutedNow : order.is_exit
        /\ \A i \in 1..Len(LastOp.snapshots) :
              ExitDue(LastOp.snapshots[i]) =>
                  ExitRouted(LastOp.before.positions[LastOp.snapshots[i].symbol])

\* A breached cycle with a buy signal on a flat symbol: the entry that is not routed.
BreachedEntrySignal ==
    /\ BreachedCycle
    /\ \E i \in 1..Len(LastOp.snapshots) :
          /\ LastOp.snapshots[i].has_price /\ LastOp.snapshots[i].signal = 1
          /\ LastOp.snapshots[i].symbol \notin DOMAIN LastOp.before.positions

(***************************************************************************)
(* LiveTradingConsole: exposure within a cycle                             *)
(***************************************************************************)
\* The price of a position in a cycle: the price of its snapshot, or its entry price when
\* the cycle has no price for it.
Mark(position, snapshots) ==
    LET priced == {i \in 1..Len(snapshots) :
                        snapshots[i].symbol = position.symbol /\ snapshots[i].has_price}
    IN  IF priced = {} THEN position.entry_price.n \div position.entry_price.d
        ELSE snapshots[CHOOSE i \in priced : TRUE].price

\* The notional of the positions held on the symbols, at the prices of the snapshots.
RECURSIVE NotionalOf(_, _, _)
NotionalOf(held, symbols, snapshots) ==
    IF symbols = {} THEN 0
    ELSE LET symbol == CHOOSE s \in symbols : TRUE
         IN  held[symbol].quantity * Mark(held[symbol], snapshots)
             + NotionalOf(held, symbols \ {symbol}, snapshots)

TotalNotional(held, snapshots) == NotionalOf(held, DOMAIN held, snapshots)

\* The symbols of the positions that have a price in the snapshots.
Priced(held, snapshots) ==
    {symbol \in DOMAIN held :
        \E i \in 1..Len(snapshots) : snapshots[i].symbol = symbol /\ snapshots[i].has_price}

\* The notional of the entry orders among the first n orders routed by the last operation.
RECURSIVE EntriesRouted(_)
EntriesRouted(n) ==
    IF n = 0 THEN 0
    ELSE LET order == calls[LastOp.before.calls + n]
         IN  (IF order.is_exit THEN 0 ELSE order.quantity * order.price) + EntriesRouted(n - 1)

RoutedCount == Len(calls) - LastOp.before.calls

\* Every entry routed by the last cycle fits, with the entries routed before it in the
\* cycle and the exposure at the start of the cycle, within the initial capital.
AdmittedWithin(exposure) ==
    \A n \in 1..RoutedCount :
        ~calls[LastOp.before.calls + n].is_exit =>
            exposure + EntriesRouted(n) <= LastOp.before.config.initial_capital

\* The last operation was a cycle that opened a position.
CycleEntered ==
    /\ session # <<>> /\ LastOp.op = "cycle"
    /\ DOMAIN positions \ DOMAIN LastOp.before.positions # {}

\* C22: within one cycle each new entry is admitted against a running exposure that
\* includes the notional of every position open at the start of the cycle and of every
\* entry routed earlier in the cycle, so that after a cycle that admitted an entry the
\* total notional of the open positions, at the prices of the cycle, is within the
\* initial capital.
C22_RunningExposure ==
    (session # <<>> /\ LastOp.op = "cycle") =>
        /\ AdmittedWithin(TotalNotional(LastOp.before.positions, LastOp.snapshots))
        /\ CycleEntered =>
              TotalNotional(positions, LastOp.snapshots) <= LastOp.before.config.initial_capital

\* The same with the exposure the code starts from: the positions that have a price in
\* the cycle.
PricedExposure ==
    (session # <<>> /\ LastOp.op = "cycle") =>
        /\ AdmittedWithin(NotionalOf(LastOp.before.positions,
                                   Priced(LastOp.before.positions, LastOp.snapshots),
                                   LastOp.snapshots))
        /\ CycleEntered =>
              NotionalOf(positions, Priced(positions, LastOp.snapshots), LastOp.snapshots)
                  <= LastOp.before.config.initial_capital

\* A second entry in one cycle is blocked for the exposure of the first.
BlockedBySamePass ==
    /\ session # <<>> /\ LastOp.op = "cycle" /\ LastOp.before.positions = <<>>
    /\ \E trigger \in TriggeredNow :
          trigger.action \in {"BUY_BLOCKED:Projected exposure exceeds total capital.",
                              "SELL_BLOCKED:Projected exposure exceeds total capital."}

(***************************************************************************)
(* LiveTradingConsole: the kill switch                                     *)
(***************************************************************************)
\* The last operation was a cycle or a manual order that found the kill switch on.
UnderKillSwitch ==
    /\ session # <<>> /\ LastOp.op \in {"cycle", "manual"}
    /\ LastOp.before.config.kill_switch_enabled

\* The position of the symbol is one the operation found, not larger and not turned.
NotGrown(symbol) ==
    /\ symbol \in DOMAIN LastOp.before.positions
    /\ positions[symbol].side = LastOp.before.positions[symbol].side
    /\ positions[symbol].quantity <= LastOp.before.positions[symbol].quantity

\* C23: while the kill switch is enabled, no cycle and no manual order (an
\* opposite-direction manual order larger than the open position included) creates a
\* position or increases the quantity of one; positions are only reduced or closed.
C23_KillSwitchNoNewExposure ==
    UnderKillSwitch => \A symbol \in DOMAIN positions : NotGrown(symbol)

\* Under the kill switch a cycle opens nothing, and a manual order for a flat symbol or in
\* the direction of the open position is rejected and books nothing.
KillSwitchBlocksEntries ==
    UnderKillSwitch =>
        /\ LastOp.op = "cycle" => \A symbol \in DOMAIN positions : NotGrown(symbol)
        /\ (LastOp.op = "manual" /\ (Upper(LastOp.symbol) \notin DOMAIN LastOp.before.positions
                                     \/ SameDirection)) =>
                /\ positions = LastOp.before.positions
                /\ cash = LastOp.before.cash
                /\ LastOp.ret.status \in {"REJECTED", "SKIPPED"}

\* Under the kill switch a manual order reduces or closes a position.
KillSwitchReduces ==
    /\ UnderKillSwitch /\ LastOp.op = "manual" /\ Accepted(LastOp.ret)
    /\ positions # LastOp.before.positions
    /\ \A symbol \in DOMAIN positions : NotGrown(symbol)

\* Under the kill switch a cycle finds a signal to enter a flat symbol.
KillSwitchEntrySignal ==
    /\ UnderKillSwitch /\ LastOp.op = "cycle"
    /\ \E i \in 1..Len(LastOp.snapshots) :
            LastOp.snapshots[i].symbol \notin DOMAIN LastOp.before.positions

(***************************************************************************)
(* ExecutionRouter: the order of the checks                                *)
(***************************************************************************)
\* Call i is rejected by the guard or by the broker.
RejectedFirst(i) ==
    /\ calls[i].result.status = "REJECTED"
    /\ IF calls[i].behaviour = Raises THEN TRUE
       ELSE calls[i].result.reason \in {"kill_switch_enabled", "outside_market_hours",
                                        "max_orders_per_day_reached", "broker_not_configured"}

\* C29: route_order checks the dedup window, then the risk guard, then dispatches by
\* mode: a call within the window of its key is SKIPPED, also when the guard would block
\* it, and neither the guard (the counter is not reset, the outcome carries no guard
\* fields) nor the broker is consulted; a first attempt that the guard or the broker
\* rejects starts the window of its key, so that the same call within the window is
\* SKIPPED.
C29_DedupThenGuardThenDispatch ==
    /\ [](\A i \in CallIds :
            InWindow(i) =>
                /\ calls[i].result.status = "SKIPPED"
                /\ calls[i].result.reason = "duplicate_window"
                /\ "orders_today" \notin DOMAIN calls[i].result
                /\ calls[i].behaviour = NotInvoked)
    /\ [](\A i \in CallIds : \A j \in CallIds :
            (i < j /\ SameKey(calls[i], calls[j]) /\ RejectedFirst(i)
                   /\ calls[j].at - calls[i].at <= DuplicateWindow) =>
                calls[j].result.status = "SKIPPED")
    /\ [][(calls' # calls /\ result'.status = "SKIPPED") =>
            /\ orders_today' = orders_today /\ orders_day' = orders_day
            /\ place_calls' = place_calls]_vars

\* A first attempt rejected by the kill switch, and the same call 10 seconds later, on the
\* next UTC day: skipped, though the guard would reject it again.
C29_Witness ==
    /\ Len(calls) = 2 /\ SameKey(calls[1], calls[2])
    /\ calls[1].result.status = "REJECTED" /\ calls[1].result.reason = "kill_switch_enabled"
    /\ calls[2].at - calls[1].at = 10
    /\ ~GuardAdmits(2)
    /\ calls[2].result.status = "SKIPPED"
    /\ orders_day # UtcDate(now)

\* The status, reason and payload of a row.
Outcome(row) == <<row.status, row.reason, row.broker_payload>>

\* C30: terminal statuses are absorbing under the router: once the status of a
\* journal row is COMPLETE, FILLED, CANCELLED, REJECTED or FAILED, no step of
\* route_order or of reconcile_order_statuses changes the status, the reason
\* or the broker payload of that row, whatever the broker would answer for it.
C30_TerminalAbsorbing ==
    [][Len(calls') > Len(calls) \/ Len(recon') > Len(recon) =>
          \A i \in 1..Len(journal) :
              journal[i].status \in FINAL_STATES =>
                  /\ i \in 1..Len(journal')
                  /\ Outcome(journal'[i]) = Outcome(journal[i])]_vars

\* A live reconciliation ran while the journal held a final live row that an
\* earlier reconciliation had completed and for which the broker would now
\* report another status, and an order was routed after that run.
C30_Witness ==
    \E k \in 1..Len(recon) :
        /\ recon[k].mode = "live" /\ recon[k].broker
        /\ \E i \in DOMAIN recon[k].answers :
              /\ recon[k].before[i].status = "COMPLETE"
              /\ recon[k].before[i].mode = "live"
              /\ ~recon[k].answers[i].raises
              /\ Upper(ExtractBrokerStatus(recon[k].answers[i].response)) = "PENDING"
              /\ Outcome(recon[k].after[i]) = Outcome(recon[k].before[i])
        /\ \E c \in 1..Len(calls) : calls[c].rows_after > Len(recon[k].after)

\* The callbacks of the calls a publish made, in order.
InvokedCallbacks(p) == [k \in 1..Len(p.invoked) |-> p.invoked[k].callback]

\* How often a publish called the callback.
Invocations(p, callback) == Cardinality({k \in 1..Len(p.invoked) : p.invoked[k].callback = callback})

\* C28 as stated: every publish(T, payload) calls the callbacks subscribed to T in
\* subscription order and then the callbacks subscribed to the wildcard topic, each
\* with an event carrying T and the payload; it calls no callback subscribed to other
\* topics only, and no callback more than once.
C28_PublishDeliversOnce ==
    \A n \in 1..Len(event_bus.published) :
        LET p == event_bus.published[n]
        IN  /\ InvokedCallbacks(p) =
                  SubscribersOf(p.subscribers, p.event_type) \o SubscribersOf(p.subscribers, WildcardTopic)
            /\ \A k \in 1..Len(p.invoked) :
                  /\ p.invoked[k].event.event_type = p.event_type
                  /\ p.invoked[k].event.payload = p.payload
            /\ \A callback \in BusCallbacks : Invocations(p, callback) <= 1

\* What publish does: it calls the list of T and then the list of the wildcard topic
\* as they are, up to the first callback that raises, so a callback is called once per
\* time it occurs in the two lists.
PublishCallsBothLists ==
    \A n \in 1..Len(event_bus.published) :
        LET p == event_bus.published[n]
            due == SubscribersOf(p.subscribers, p.event_type) \o SubscribersOf(p.subscribers, WildcardTopic)
        IN  /\ Len(p.invoked) <= Len(due)
            /\ InvokedCallbacks(p) = SubSeq(due, 1, Len(p.invoked))
            /\ p.returned <=> \A k \in 1..Len(due) : ~CallbackRaises(due[k])
            /\ p.returned => Len(p.invoked) = Len(due)
            /\ \A k \in 1..Len(p.invoked) :
                  p.invoked[k].event = RuntimeEvent(p.event_type, p.payload, p.invoked[k].event.timestamp)

\* A publish on a topic returned after calling a well-behaved callback twice: the
\* callback is subscribed to the topic and to the wildcard topic.
SubscribedToBoth ==
    \E n \in 1..Len(event_bus.published) :
        LET p == event_bus.published[n]
        IN  /\ p.returned /\ p.event_type = "alpha"
            /\ SubscribersOf(p.subscribers, "alpha") = <<"listener">>
            /\ SubscribersOf(p.subscribers, WildcardTopic) = <<"listener">>
            /\ Invocations(p, "listener") = 2

(***************************************************************************)
(* LiveTradingConsole: the run loop                                        *)
(***************************************************************************)
Runs == {k \in 1..Len(session) : session[k].op = "run"}

\* The symbols a caller asked for, as run() reads them: upper case, blanks dropped.
Requested(symbols) ==
    LET kept == SelectSeq(symbols, LAMBDA s : s \notin {"", " "})
    IN  [k \in 1..Len(kept) |-> Upper(kept[k])]

Elements(seq) == {seq[k] : k \in 1..Len(seq)}

\* The first place of an element in a list.
FirstAt(seq, x) == CHOOSE k \in 1..Len(seq) : seq[k] = x /\ \A i \in 1..(k - 1) : seq[i] # x

\* The list starts with the requested symbols; the symbols after them are the saved
\* symbols not requested, each once, in the order of the snapshot.
MergedWatchlist(watch, requested, saved) ==
    /\ \A i, j \in 1..Len(watch) : i # j => watch[i] # watch[j]
    /\ Elements(watch) = Elements(requested) \cup Elements(saved)
    /\ Len(watch) >= Len(requested) /\ SubSeq(watch, 1, Len(requested)) = requested
    /\ \A i, j \in (Len(requested) + 1)..Len(watch) :
          i < j => FirstAt(saved, watch[i]) < FirstAt(saved, watch[j])

\* C26: on start, when auto-resume restores a snapshot the resolved watchlist is the
\* requested symbols followed by the saved symbols not already present, without
\* duplicates (and the requested symbols when nothing is restored); run sets the
\* router mode to the requested execution mode; and when the resolved watchlist is
\* empty run raises before any cycle runs or any order is routed: the run routes no
\* order, and a cycle or a command only follows a run that did not raise.
C26_StartResolvesWatchlist ==
    /\ [](\A k \in Runs :
            LET r == session[k]
            IN  /\ r.ret => MergedWatchlist(r.symbols, Requested(r.args.symbols), r.loaded.watchlist)
                /\ ~r.ret => r.symbols = Requested(r.args.symbols)
                /\ r.after.mode = Lower(r.args.execution_mode)
                /\ r.raised <=> r.symbols = <<>>
                /\ r.running <=> ~r.raised
                /\ k = Len(session) => mode = r.after.mode)
    /\ [][Len(session') > Len(session) =>
            LET op == session'[Len(session')]
            IN  /\ op.op = "run" =>
                      /\ calls' = calls /\ journal' = journal /\ place_calls' = place_calls
                      /\ op.raised => inodes' = inodes /\ state_file' = state_file
                /\ op.op \in {"run_cycle", "run_command"} =>
                      /\ session # <<>>
                      /\ session[Len(session)].op \in {"run", "run_cycle", "run_command"}
                      /\ ~session[Len(session)].raised
                      /\ \E k \in Runs : ~session[k].raised /\ session[k].symbols # <<>>]_vars

\* A run without symbols was rejected; a later run in live mode restored the snapshot of
\* an earlier session and merged its watchlist into the requested one; a cycle followed.
C26_Witness ==
    /\ \E k \in Runs : session[k].raised /\ session[k].symbols = <<>> /\ k < Len(session)
    /\ \E k \in Runs :
          /\ session[k].ret /\ ~session[k].raised
          /\ session[k].args.execution_mode = "LIVE" /\ session[k].after.mode = "live"
          /\ session[k].args.symbols = <<"infy", " ">>
          /\ session[k].loaded.watchlist = <<"SBIN", "INFY">>
          /\ session[k].symbols = <<"INFY", "SBIN">>
    /\ LoopOp.op = "run_cycle" /\ LoopOp.symbols = <<"INFY", "SBIN">>

\* The last operation was a cycle or a command of the run loop, and every snapshot it
\* wrote reached the disk.
PassSaved ==
    /\ session # <<>>
    /\ LoopOp.op \in {"run_cycle", "run_command"}
    /\ \A k \in 1..Len(LoopOp.saved) : LoopOp.saved[k]

\* The snapshot on disk holds the cash, realized P&L, positions, risk config and router
\* mode of the console.
SnapshotOfConsole ==
    /\ state_file # 0
    /\ StateDoc.cash = cash /\ StateDoc.realized_pnl = realized_pnl
    /\ StateDoc.positions = Values(positions)
    /\ StateDoc.risk_config = config /\ StateDoc.router_mode = mode
    /\ StateDoc.event_log = event_log /\ StateDoc.equity_history = equity_history

\* C24 as stated: at the end of every cycle and after every command, once the snapshot
\* is written, the snapshot on disk equals the state of the console: cash, realized P&L,
\* positions, risk config, router mode, and the watchlist of the run loop, also when the
\* watchlist has become empty.
C24_SnapshotIsCurrent ==
    PassSaved => SnapshotOfConsole /\ StateDoc.watchlist = LoopOp.symbols

\* What holds: everything but the watchlist is current, and the watchlist is current
\* unless it is empty, when the snapshot keeps the watchlist the run started with.
SnapshotKeepsStartWatchlist ==
    PassSaved =>
        /\ SnapshotOfConsole
        /\ StateDoc.watchlist = IF LoopOp.symbols # <<>> THEN LoopOp.symbols ELSE runtime_watchlist

\* The operator removed the last symbol of the watchlist and the snapshot was written.
LastSymbolRemoved ==
    /\ PassSaved /\ LoopOp.op = "run_command" /\ LoopOp.cmd.key = "remove"
    /\ LoopOp.symbols = <<>> /\ LoopOp.running
    /\ StateDoc.watchlist = <<"INFY">>

\* A cycle in which something failed: the journal query of the dashboard export raised,
\* the dashboard file could not be written, or the snapshot could not be written.
FailedCycle ==
    /\ session # <<>> /\ LoopOp.op = "run_cycle"
    /\ LoopOp.export # "returns" \/ ~LoopOp.saved[1]

\* C25 as stated: a failure raised while a cycle runs does not end the console: the
\* run loop is still running after the cycle, and the event log has a new entry.
C25_CycleFailuresLogged ==
    FailedCycle => LoopOp.running /\ ~LoopOp.raised /\ event_log # LoopOp.log_before

\* What holds: a write that fails is swallowed and the loop goes on, and an exception of
\* the journal leaves run() after the finally clause has saved the session.
JournalFailureEndsRun ==
    FailedCycle =>
        /\ LoopOp.export = "query_raises" => ~LoopOp.running /\ LoopOp.raised /\ ~InLoop
        /\ LoopOp.export # "query_raises" => LoopOp.running /\ InLoop

\* The journal query of the export raised in a cycle and the console is no longer running.
RunEndedByJournal ==
    /\ FailedCycle /\ LoopOp.export = "query_raises"
    /\ ~InLoop /\ state_file # 0

\* A snapshot could not be written in a cycle without data: nothing was logged.
SilentSaveFailure ==
    /\ FailedCycle /\ ~LoopOp.saved[1]
    /\ event_log = LoopOp.log_before /\ InLoop

\* The operator cleared the saved state, clear_state removed the file, and the operator
\* then quit.
ClearedThenQuit ==
    /\ Len(session) >= 2
    /\ LoopOp.op = "run_command" /\ LoopOp.cmd.key = "quit"
    /\ session[Len(session) - 1].op = "run_command"
    /\ session[Len(session) - 1].cmd.key = "clearstate"
    /\ session[Len(session) - 1].file_cleared = 0

\* C27 as stated: after the clearstate command and a quit, the snapshot is gone, so
\* that a start with auto-resume finds no prior session.
C27_ClearedStateStaysCleared ==
    ClearedThenQuit => state_file = 0 /\ LoadState = None

\* What holds: the snapshot is gone only when the saves after the two commands failed.
ClearedUnlessSaved ==
    ClearedThenQuit =>
        (state_file = 0 <=>
            /\ \A k \in 1..Len(LoopOp.saved) : ~LoopOp.saved[k]
            /\ \A k \in 1..Len(session[Len(session) - 1].saved) : ~session[Len(session) - 1].saved[k])

\* The snapshot was cleared, the operator quit, and the snapshot is on disk again with
\* the state of the console.
ClearedThenSavedAgain ==
    /\ ClearedThenQuit /\ state_file # 0
    /\ LoadState # None /\ StateDoc.cash = cash /\ StateDoc.watchlist = LoopOp.symbols

(***************************************************************************)
(* C31: whatever numbers the operator's commands carry, the risk config    *)
(* stays normalized: stop-loss, take-profit and risk-per-trade are at      *)
(* least 0.001, max-position is at least 0.01, max orders per day is at    *)
(* least 1, and no percentage is negative.                                 *)
(***************************************************************************)
C31_RiskConfigNormalized ==
    /\ config.stop_loss_pct >= 10
    /\ config.take_profit_pct >= 10
    /\ config.risk_per_trade_pct >= 10
    /\ config.max_position_pct >= 100
    /\ config.max_orders_per_day >= 1
    /\ config.max_daily_loss_pct >= 0

\* Commands with a not-a-number and a negative argument have been applied, and the
\* floors are what the config holds.
C31_Witness ==
    /\ Len(session) = 3
    /\ session[2].op = "run_command" /\ session[2].cmd = [key |-> "/sl", arg |-> "nan"]
    /\ session[3].op = "run_command" /\ session[3].cmd = [key |-> "/mo", arg |-> "-5"]
    /\ config.stop_loss_pct = 10 /\ config.max_orders_per_day = 1

(***************************************************************************)
(* Invalid commands                                                        *)
(***************************************************************************)
\* The commands of the model that are unknown, lack their argument or carry an invalid
\* one: a percentage or a count that is not a number, a mode that is not paper or live,
\* a toggle value that is not on or off.
InvalidCommands ==
    {[key |-> k, arg |-> ""] : k \in {"/foo", "/sl", "/kill", "/mode"}}
    \cup {[key |-> k, arg |-> "abc"] : k \in {"/sl", "/maxpos", "/maxorders"}}
    \cup {[key |-> "/maxorders", arg |-> "0.5"], [key |-> "/mode", arg |-> "sim"]}
    \cup {[key |-> k, arg |-> "Maybe"] : k \in {"/kill", "/hours", "/buy", "/sell"}}

\* In this step the console has taken an invalid command.
InvalidTaken == session' # session /\ LoopOp'.op = "run_command" /\ LoopOp'.cmd \in InvalidCommands

\* The step keeps the router mode, the watchlist and the run loop, and adds one entry to
\* the event log.
OnlyLogged ==
    /\ mode' = mode /\ LoopOp'.symbols = LoopOp.symbols /\ LoopOp'.running
    /\ Len(event_log) < 30 =>
          Len(event_log') = Len(event_log) + 1 /\ SubSeq(event_log', 1, Len(event_log)) = event_log

\* C37 as stated: an operator command that is unknown, lacks its argument or carries an
\* invalid argument leaves the risk config, the router mode and the watchlist unchanged,
\* only adds an entry to the event log, and never stops the console.
C37_InvalidCommandOnlyLogs == [][InvalidTaken => OnlyLogged /\ config' = config]_vars

\* What holds: mode, watchlist and run loop are kept and one entry is logged; the risk
\* config is kept except that a toggle with a value other than on or off is switched off.
InvalidCommandSwitchesOff ==
    [][InvalidTaken =>
          /\ OnlyLogged
          /\ LET toggles == {"buy_enabled", "sell_enabled", "kill_switch_enabled", "market_hours_only"}
             IN  \A f \in DOMAIN config :
                    \/ config'[f] = config[f]
                    \/ f \in toggles /\ LoopOp'.cmd.arg = "Maybe" /\ config[f] /\ ~config'[f]]_vars

\* The kill switch was on and "/kill Maybe" has switched it off.
KillSwitchOffByTypo ==
    /\ Len(session) = 3
    /\ session[2].op = "run_command" /\ session[2].cmd = [key |-> "/kill", arg |-> "on"]
    /\ session[3].op = "run_command" /\ session[3].cmd = [key |-> "/kill", arg |-> "Maybe"]
    /\ ~config.kill_switch_enabled
    /\ event_log[Len(event_log)] = <<"Kill switch set to OFF.">>

(***************************************************************************)
(* Bounded histories                                                       *)
(***************************************************************************)
\* new holds the last min(Len(old) + j, bound) entries of old followed by j further ones.
KeepsLast(old, new, j, bound) ==
    LET kept == Len(new) - j
    IN  /\ Len(new) = Min(Len(old) + j, bound)
        /\ kept >= 0
        /\ \A i \in 1..kept : new[i] = old[Len(old) - kept + i]

\* The step is an operation of the run loop.
Stepped == session' = Append(session, LoopOp')

\* The number of messages a command of the model logs.
CommandLogs(cmd) == IF cmd.key = "remove" THEN 0 ELSE 1

\* The equity the cycle of this step ends with: cash and the open positions at the quote
\* of the cycle, a position without a price left out.
CycleEquity ==
    LET quote == LoopOp'.snapshots[1]
        signed(s) == IF positions'[s].side = "LONG" THEN positions'[s].quantity * quote.price
                     ELSE 0 - positions'[s].quantity * quote.price
    IN  IF quote.has_price /\ DOMAIN positions' # {} THEN cash' + signed("INFY") ELSE cash'

\* The event log of this step continues the log the console had, or on a resumed start
\* the log of the snapshot.
LogStep ==
    CASE LoopOp'.op = "run" /\ LoopOp'.ret ->
            /\ KeepsLast(LoopOp'.loaded.event_log, event_log', 3, 30)
            /\ event_log'[Len(event_log')] = <<"Started console in mode", "PAPER">>
            /\ equity_history' = LoopOp'.loaded.equity_history
      [] LoopOp'.op = "run" /\ ~LoopOp'.ret ->
            /\ KeepsLast(event_log, event_log', 1, 30)
            /\ event_log'[Len(event_log')] = <<"Started console in mode", "PAPER">>
            /\ equity_history' = equity_history
      [] LoopOp'.op = "run_command" ->
            /\ KeepsLast(event_log, event_log', CommandLogs(LoopOp'.cmd), 30)
            /\ equity_history' = equity_history
      [] LoopOp'.op = "run_cycle" ->
            /\ \E j \in 0..2 : KeepsLast(event_log, event_log', j, 30)
            /\ KeepsLast(equity_history, equity_history', 1, 200)
            /\ equity_history'[Len(equity_history')] = CycleEquity

\* The snapshot on disk holds the log and the equities of a console, within the bounds.
SnapshotBounded ==
    state_file # 0 => Len(StateDoc.event_log) <= 30 /\ Len(StateDoc.equity_history) <= 200

\* A snapshot written in this step holds the log and the equities the step ends with.
SnapshotStep ==
    state_file' # state_file =>
        StateDoc'.event_log = event_log' /\ StateDoc'.equity_history = equity_history'

\* C32: the event log holds the last min(n, 30) messages logged and the equity history
\* the last min(n, 200) equity values, in order, and the snapshot on disk never holds
\* more than these.
C32_BoundedHistories ==
    /\ [](Len(event_log) <= 30 /\ Len(equity_history) <= 200 /\ SnapshotBounded)
    /\ [][Stepped => LogStep /\ SnapshotStep]_vars

\* A session resumed a snapshot with 29 log lines and 199 equities; two cycles later the
\* log is full and the equity history holds 200 values, the oldest of the snapshot gone,
\* and the snapshot on disk holds the same.
C32_Witness ==
    /\ Len(session) = 3 /\ session[1].op = "run" /\ session[1].ret
    /\ Len(session[1].loaded.equity_history) = 199
    /\ LoopOp.op = "run_cycle" /\ session[2].op = "run_cycle"
    /\ Len(equity_history) = 200 /\ Len(event_log) = 30
    /\ equity_history[1] = session[1].loaded.equity_history[2]
    /\ event_log[1] # session[1].loaded.event_log[1]
    /\ StateDoc.equity_history = equity_history /\ StateDoc.event_log = event_log

(***************************************************************************)
(* Stopping the console                                                    *)
(***************************************************************************)
\* The last operation of the session was the quit command.
QuitProcessed ==
    session # <<>> /\ LoopOp.op = "run_command" /\ LoopOp.cmd.key \in {"quit", "/q"}

\* The snapshot on disk is the console as it stands, with the symbols of the run.
SnapshotIsConsole ==
    /\ state_file # 0
    /\ StateDoc.cash = cash /\ StateDoc.realized_pnl = realized_pnl
    /\ StateDoc.positions = Values(positions)
    /\ StateDoc.event_log = event_log /\ StateDoc.equity_history = equity_history
    /\ StateDoc.router_mode = mode /\ StateDoc.risk_config = config
    /\ LoopOp.symbols # <<>> => StateDoc.watchlist = LoopOp.symbols

\* C33: stop is cooperative and final.  Once the quit command has been processed the
\* loop has ended with the session saved after the command and once more on the way
\* out, the snapshot being the console as it stands when the disk took it; and no cycle
\* follows: nothing is fetched, routed or reconciled until run() is called again.
C33_QuitIsFinal ==
    /\ [](QuitProcessed =>
             /\ ~LoopOp.running
             /\ Len(LoopOp.saved) = 2
             /\ event_log[Len(event_log)] = <<"Stopping live console.">>
             /\ LoopOp.saved[2] => SnapshotIsConsole)
    /\ [][QuitProcessed /\ session' # session =>
             /\ LoopOp'.op = "run"
             /\ journal' = journal /\ calls' = calls /\ place_calls' = place_calls
             /\ status_calls' = status_calls /\ recon' = recon
             /\ orders_today' = orders_today /\ last_order_at' = last_order_at]_vars

\* A cycle opened a position in live mode, the operator quit, and the snapshot on disk
\* holds the position and the last line of the log.
C33_Witness ==
    /\ Len(session) = 3
    /\ session[2].op = "run_cycle" /\ Len(journal) = 1 /\ journal[1].status = "SENT"
    /\ QuitProcessed /\ LoopOp.saved = <<TRUE, TRUE>>
    /\ SnapshotIsConsole /\ Len(StateDoc.positions) = 1
    /\ StateDoc.event_log[Len(StateDoc.event_log)] = <<"Stopping live console.">>

(***************************************************************************)
(* Accounting                                                              *)
(***************************************************************************)
\* The open positions at their entry prices, or at the price the snapshots give for
\* their symbol: long positions count positive, short ones negative.
RECURSIVE SignedValue(_, _)
SignedValue(held, snapshots) ==
    IF held = <<>> THEN 0
    ELSE LET pos == Head(held)
             priced == {i \in 1..Len(snapshots) :
                            snapshots[i].symbol = pos.symbol /\ snapshots[i].has_price}
             value == IF priced = {} THEN (pos.quantity * pos.entry_price.n) \div pos.entry_price.d
                      ELSE pos.quantity * snapshots[CHOOSE i \in priced : TRUE].price
         IN  (IF pos.side = "LONG" THEN value ELSE 0 - value) + SignedValue(Tail(held), snapshots)

\* The prices at which the operation of this step trades.
StepPrices ==
    IF LoopOp'.op = "cycle" THEN LoopOp'.snapshots
    ELSE <<[symbol |-> Upper(LoopOp'.symbol), has_price |-> LoopOp'.price > 0,
            price |-> LoopOp'.price]>>

\* C34: cash plus the long positions at entry price minus the short positions at entry
\* price is the initial capital plus the realized P&L; with no open position cash is
\* initial capital plus realized P&L; and an operation leaves the equity at the prices
\* it trades at unchanged.
C34_AccountingIdentity ==
    /\ [](cash + SignedValue(Values(positions), <<>>) = TradeCapital + realized_pnl)
    /\ [](positions = <<>> => cash = TradeCapital + realized_pnl)
    /\ [][session' # session =>
             cash' + SignedValue(Values(positions'), StepPrices)
                = cash + SignedValue(Values(positions), StepPrices)]_vars

\* A long position bought at 7 was sold at 10 by an order for more than was held: a
\* profit is booked and the console is short the rest.
C34_Witness ==
    /\ Len(session) = 2 /\ LoopOp.op = "manual" /\ Accepted(LoopOp.ret)
    /\ realized_pnl = 30000
    /\ DOMAIN positions = {"INFY"} /\ positions["INFY"].side = "SHORT"
    /\ positions["INFY"].quantity = 5
    /\ cash = TradeCapital + 30000 + 50000

(***************************************************************************)
(* Orders that are not accepted                                            *)
(***************************************************************************)
\* The route_order calls of this step.
StepCalls == (Len(calls) + 1)..Len(calls')

\* Position of the symbol, if any.
Holding(book, symbol) == IF symbol \in DOMAIN book THEN book[symbol] ELSE None

\* C35: the console changes cash, positions and realized P&L only for orders that come
\* back FILLED or SENT.  An operation whose orders all come back REJECTED or SKIPPED
\* leaves cash, realized P&L and the open positions as they were, and the position of a
\* symbol changes only in an operation with a FILLED or SENT order for that symbol.
C35_UnacceptedOrdersChangeNothing ==
    [][session' # session =>
          /\ (\A i \in StepCalls : calls'[i].result.status \in {"REJECTED", "SKIPPED"}) =>
                cash' = cash /\ realized_pnl' = realized_pnl /\ positions' = positions
          /\ \A symbol \in {"INFY", "TCS.NS"} :
                Holding(positions', symbol) # Holding(positions, symbol) =>
                    \E i \in StepCalls : /\ calls'[i].symbol = symbol
                                         /\ calls'[i].result.status \in {"FILLED", "SENT"}]_vars

\* The console is long after an accepted order, and the broker has failed on the order
\* that would have closed the position: the order is REJECTED and the book is as before.
C35_Witness ==
    /\ Len(session) = 2 /\ session[1].op = "manual" /\ Accepted(session[1].ret)
    /\ LoopOp.op = "manual" /\ LoopOp.ret.status = "REJECTED" /\ Len(calls) = 2
    /\ calls[2].is_exit /\ calls[2].result.status = "REJECTED"
    /\ positions # <<>> /\ positions = LoopOp.before.positions
    /\ cash = LoopOp.before.cash /\ realized_pnl = LoopOp.before.realized_pnl

(***************************************************************************)
(* Reconciliation and the console                                          *)
(***************************************************************************)
\* The orders of this step that the router counted.
StepAccepted == {i \in StepCalls : calls'[i].result.status \in {"FILLED", "SENT"}}

\* C36: reconciliation changes journal rows only, whatever the broker reports.  A call
\* of reconcile_order_statuses leaves cash, positions, realized P&L, the daily order
\* counter and the dedup cache as they are; in a cycle they change by the orders the
\* cycle routes and not by what its reconciliation finds.
C36_ReconcileChangesJournalOnly ==
    [][recon' # recon =>
          /\ orders_today' = orders_today + Cardinality(StepAccepted)
          /\ \A key \in DOMAIN last_order_at' :
                (key \notin DOMAIN last_order_at \/ last_order_at'[key] # last_order_at[key]) =>
                    \E i \in StepCalls : DedupeKey(calls'[i].symbol, calls'[i].side,
                                                   calls'[i].is_exit) = key
          /\ DOMAIN last_order_at \subseteq DOMAIN last_order_at'
          /\ \A symbol \in {"INFY"} :
                Holding(positions', symbol) # Holding(positions, symbol) =>
                    \E i \in StepAccepted : calls'[i].symbol = symbol
          /\ StepAccepted = {} =>
                cash' = cash /\ realized_pnl' = realized_pnl /\ positions' = positions]_vars

\* A SENT order opened a position, and a later reconciliation in which no order was
\* routed recorded that the broker rejected it: the position, the cash paid for it and
\* the count of the order stand.
C36_Witness ==
    /\ Len(journal) = 1 /\ journal[1].status = "REJECTED" /\ journal[1].reason = "reconciled"
    /\ Len(recon) = 2 /\ recon[2].before[1].status = "SENT"
    /\ DOMAIN positions = {"INFY"} /\ positions["INFY"].side = "LONG"
    /\ cash = TradeCapital - positions["INFY"].quantity * 10000
    /\ orders_today = 1 /\ realized_pnl = 0

(***************************************************************************)
(* One order per symbol and cycle                                          *)
(***************************************************************************)
\* C38: in one cycle the console routes at most one order per symbol of the watchlist:
\* an exit for a symbol it held when the cycle began, which is then not entered again,
\* or an entry for a symbol that was flat, which is then not exited.
C38_OneOrderPerSymbolPerCycle ==
    [][session' # session /\ LoopOp'.op = "cycle" =>
          /\ \A i, k \in StepCalls : i # k => calls'[i].symbol # calls'[k].symbol
          /\ \A i \in StepCalls :
                LET symbol == calls'[i].symbol
                    taken == calls'[i].result.status \in {"FILLED", "SENT"}
                IN  /\ \E n \in 1..Len(LoopOp'.snapshots) : LoopOp'.snapshots[n].symbol = symbol
                    /\ calls'[i].is_exit <=> symbol \in DOMAIN positions
                    /\ calls'[i].is_exit /\ taken => symbol \notin DOMAIN positions'
                    /\ ~calls'[i].is_exit /\ taken =>
                          /\ symbol \in DOMAIN positions'
                          /\ positions'[symbol].quantity = calls'[i].quantity]_vars

\* One cycle closed the long position on INFY and opened a short one on TCS.NS on the
\* same sell signal: two orders, one per symbol, and INFY stays flat.
C38_Witness ==
    /\ Len(session) = 2 /\ LoopOp.op = "cycle" /\ Len(calls) = 3
    /\ LoopOp.before.calls = 1
    /\ calls[2].symbol = "INFY" /\ calls[2].is_exit /\ calls[2].result.status = "FILLED"
    /\ calls[3].symbol = "TCS.NS" /\ ~calls[3].is_exit /\ calls[3].result.status = "FILLED"
    /\ DOMAIN positions = {"TCS.NS"} /\ positions["TCS.NS"].side = "SHORT"

(***************************************************************************)
(* Open positions and the watchlist                                        *)
(***************************************************************************)
\* The symbols the next cycle of the running loop scans.
Scanned == {LoopOp.symbols[n] : n \in 1..Len(LoopOp.symbols)}

\* The symbols the operator has removed from the watchlist so far.
Removed ==
    {Upper(session[i].cmd.arg) :
        i \in {k \in 1..Len(session) : /\ session[k].op = "run_command"
                                       /\ Alias(Lower(LStripSlash(session[k].cmd.key))) = "remove"}}

\* C39: while the loop runs, every symbol with an open position is in the watchlist the
\* next cycle scans, so the exit conditions of every open position are evaluated.
C39_PositionsAreScanned ==
    InLoop => \A symbol \in DOMAIN positions : symbol \in Scanned

\* The watchlist the running loop began with.
Started ==
    LET runs == {k \in 1..Len(session) : session[k].op = "run"}
        last == CHOOSE k \in runs : \A n \in runs : n <= k
    IN  {session[last].symbols[n] : n \in 1..Len(session[last].symbols)}

\* What the code keeps: a position is left out of the scan only when the operator
\* removed its symbol, or when the console already held it and run() began without it.
PositionsScannedUnlessRemoved ==
    InLoop => \A symbol \in DOMAIN positions :
                 symbol \in Scanned \/ symbol \in Removed \/ symbol \notin Started

\* The console holds INFY, entered by a cycle, and /remove infy has emptied the
\* watchlist: no later cycle looks at the position.
PositionLeftUnscanned ==
    /\ InLoop /\ Len(session) = 3
    /\ session[2].op = "run_cycle" /\ LoopOp.op = "run_command" /\ LoopOp.cmd.key = "remove"
    /\ "INFY" \in DOMAIN positions /\ Scanned = {}

(***************************************************************************)
(* The daily order limit across a stop and a resume                        *)
(***************************************************************************)
\* The entries the router took on the day: orders that are no exits and came back SENT
\* or FILLED.
EntriesOn(day) == {i \in 1..Len(calls) : ~calls[i].is_exit /\ Accepted(calls[i].result) /\ Day(calls[i]) = day}

\* Every run() of a new process restored the snapshot of the session before it.
EveryRestartResumed ==
    \A k \in 2..Len(session) : session[k].op = "run" /\ session[k - 1].op = "new" => session[k].ret

\* C40: the limit on orders per day holds across a stop and a resume within one UTC day:
\* the resumed console still counts the orders sent before the stop, so that no more
\* entries than max_orders_per_day are admitted on the day in total.
C40_DailyLimitSurvivesResume ==
    EveryRestartResumed =>
       /\ Cardinality(EntriesOn(UtcDate(now))) <= config.max_orders_per_day
       /\ InLoop /\ orders_day = UtcDate(now) =>
             orders_today >= Cardinality({i \in 1..Len(calls) : Accepted(calls[i].result) /\ Day(calls[i]) = orders_day})

\* What the code keeps: in one cycle the router admits entries only while its own
\* counter, which starts at 0 in every process, is below the limit.
CounterLimitsEntries ==
    [][session' # session /\ LoopOp'.op = "run_cycle" =>
          LET entered == {i \in StepAccepted : ~calls'[i].is_exit}
          IN  entered # {} =>
                 Cardinality(entered) + orders_today <= config'.max_orders_per_day]_vars

\* One order was sent before the stop; the resumed console holds INFY again, has
\* counted no order, and has sent a second entry on the same day under a limit of one.
SecondEntryAfterResume ==
    /\ Len(calls) >= 3 /\ InLoop /\ LoopOp.op = "run_cycle"
    /\ \E k \in 1..Len(session) : session[k].op = "new"
    /\ EveryRestartResumed
    /\ Cardinality(EntriesOn(UtcDate(now))) = 2
    /\ DOMAIN positions = {"INFY", "TCS.NS"}
    /\ config.max_orders_per_day = 1 /\ orders_today = 1

====
